---------------------------- MODULE Spec2Model ----------------------------
(***************************************************************************)
(* Model of the SWO trace core of source/swotrace.c: the packet ring       *)
(* (trace_queue, tracequeue_head/tail/overflow), the transport reader      *)
(* thread (trace_read), the ITM text decoder (tracestring_process,         *)
(* tracestring_add), and the session life cycle (trace_init, trace_close)  *)
(* in its POSIX and its Windows build.                                     *)
(*                                                                         *)
(* Conventions                                                             *)
(*  - bytes are naturals 0..255; C arrays are 1-based sequences here;      *)
(*  - timestamps (double, seconds) are integer milliseconds;               *)
(*  - a size_t is held as the signed representative of its residue, so a   *)
(*    negative value stands for the wrapped value 2^w + v;                 *)
(*  - malloc is taken to succeed; CTF streams are not registered, so       *)
(*    tracestring_add takes its plain-text branch.                         *)
(***************************************************************************)
EXTENDS Integers, Sequences, FiniteSets, TLC

(***************************************************************************)
(* Program constants                                                       *)
(***************************************************************************)
PACKET_SIZE == 64
PACKET_NUM == 128
TRACESTRING_MAXLENGTH == 256
TRACESTRING_INITSIZE == 32
NUM_CHANNELS == 32
ITM_CACHESIZE == 5
\* the continuation interval of tracestring_add, 0.1 s, in milliseconds
INTERVAL_LIMIT == 100

(***************************************************************************)
(* Bounds of the model                                                     *)
(***************************************************************************)
\* frames the reader reads in the fill-then-drain specification
MaxFill == 200
\* frames already queued when the concurrent ring specification starts
RingPrefill == 126
\* frames the reader reads in the concurrent ring specification
MaxRing == 3
\* total bytes of the ITM stream fed in the decoder specification
MaxStream == 4
\* frames the reader reads in the life-cycle specification
MaxLife == 2
\* trace_init calls in the life-cycle specification
MaxInit == 2
\* calls of tracestring_add in the trace store specification
MaxAdds == 3
\* frames the reader reads while both decoders drain the ring
MaxProc == 2
\* frames the reader reads in the profile decoder specification
MaxProfile == 3
\* calls of tracestring_add in the search specification
MaxSearch == 3
\* calls of tracestring_add after the burst in the timeline specification
MaxTimeline == 1

Min(a, b) == IF a < b THEN a ELSE b
Max(a, b) == IF a > b THEN a ELSE b

(***************************************************************************)
(* ITM header macros                                                       *)
(***************************************************************************)
ITM_VALIDHDR(b) == (b % 8) >= 1 /\ (b % 8) <= 3
ITM_CHANNEL(b) == (b \div 8) % 32
ITM_LENGTH(b) == IF (b % 8) = 3 THEN 4 ELSE b % 8

(***************************************************************************)
(* The ring: index arithmetic and slot access                              *)
(***************************************************************************)
\* mutant: the cursor steps two slots
NextIndex_Skip(i) == (i + 2) % PACKET_NUM
NextIndex(i) == (i + 1) % PACKET_NUM

\* mutant: the full test forgets the reserved slot
RingFull_NoReserve(head, tail) == FALSE
RingFull(head, tail) == NextIndex(tail) = head

\* number of queued frames between the cursors
Queued(head, tail) == (tail - head + PACKET_NUM) % PACKET_NUM

\* a PACKET: data holds the bytes ever written to the slot (the rest of the
\* 64-byte array is still zero), length and timestamp as stored
EmptyPacket == [data |-> <<>>, length |-> 0, timestamp |-> 0]

\* byte i (1-based) of a slot's data array; bytes never written read as 0
SlotByte(pkt, i) == IF i <= Len(pkt.data) THEN pkt.data[i] ELSE 0

\* mutant: the copy into the slot is lost
CopyInto_Lost(old, buf) == old
\* memcpy(trace_queue[tail].data, buffer, numread): the first numread bytes
\* are replaced, the bytes behind them stay
CopyInto(old, buf) ==
  buf \o (IF Len(old) > Len(buf) THEN SubSeq(old, Len(buf) + 1, Len(old)) ELSE <<>>)

(***************************************************************************)
(* Trace store: tracestring_add, plain-text branch                         *)
(***************************************************************************)
CR == 13
LF == 10

\* sprintf("%.3f") of a relative time held in milliseconds
Format3(ms) ==
  LET a == IF ms < 0 THEN 0 - ms ELSE ms
  IN  <<IF ms < 0 THEN "-" ELSE "", a \div 1000, a % 1000>>

Last(s) == s[Len(s)]
SetLast(s, e) == [s EXCEPT ![Len(s)] = e]
\* mutant: the sealed flag is never set
Seal_None(item) == item
\* mutant: sealing a line moves its timestamp
Seal_Stamp(item) == [item EXCEPT !.flags = 1, !.timestamp = item.timestamp + 1]
Seal(item) == [item EXCEPT !.flags = 1]

\* while (length > 0 && buffer[length - 1] == '\0') length--;
RECURSIVE StripNul(_)
StripNul(buf) ==
  IF Len(buf) > 0 /\ buf[Len(buf)] = 0
    THEN StripNul(SubSeq(buf, 1, Len(buf) - 1))
    ELSE buf

\* mutant: no interval limit
SealChecks_NoTimeout(tail, channel, timestamp) ==
  IF tail.channel # channel THEN Seal(tail)
  ELSE IF tail.length >= TRACESTRING_MAXLENGTH THEN Seal(tail)
  ELSE tail
\* mutant: a byte of another channel continues the line
SealChecks_NoChannel(tail, channel, timestamp) ==
  LET t1 == IF tail.length >= TRACESTRING_MAXLENGTH THEN Seal(tail) ELSE tail
  IN  IF timestamp - t1.timestamp > INTERVAL_LIMIT THEN Seal(t1) ELSE t1
\* mutant: no line length limit
SealChecks_NoLimit(tail, channel, timestamp) ==
  LET t1 == IF tail.channel # channel THEN Seal(tail) ELSE tail
  IN  IF timestamp - t1.timestamp > INTERVAL_LIMIT THEN Seal(t1) ELSE t1
\* the seal decisions taken on the tail for a byte that is no CR or LF
SealChecks(tail, channel, timestamp) ==
  LET t1 == IF tail.channel # channel THEN Seal(tail)
            ELSE IF tail.length >= TRACESTRING_MAXLENGTH THEN Seal(tail)
            ELSE tail
  IN  IF timestamp - t1.timestamp > INTERVAL_LIMIT THEN Seal(t1) ELSE t1

\* append one byte to the tail, doubling its buffer when it is full
AppendByte(tail, b) ==
  LET grown == IF tail.length >= tail.size
                 THEN [tail EXCEPT !.size = tail.size * 2]
                 ELSE tail
  IN  IF grown.length < grown.size
        THEN [grown EXCEPT !.text = Append(grown.text, b),
                           !.length = grown.length + 1]
        ELSE grown

\* mutant: the time is taken relative to the line before
NewItem_Prev(lines, channel, b, timestamp) ==
  [text |-> <<b>>, length |-> 1, size |-> TRACESTRING_INITSIZE,
   channel |-> channel, timestamp |-> timestamp, flags |-> 0,
   timefmt |-> Format3(IF lines # <<>> THEN timestamp - Last(lines).timestamp ELSE 0)]
\* a new TRACESTRING holding one byte
NewItem(lines, channel, b, timestamp) ==
  [text |-> <<b>>, length |-> 1, size |-> TRACESTRING_INITSIZE,
   channel |-> channel, timestamp |-> timestamp, flags |-> 0,
   timefmt |-> Format3(IF lines # <<>> THEN timestamp - lines[1].timestamp ELSE 0)]

\* the for loop over the bytes of the buffer, from index idx
RECURSIVE AddLoop(_, _, _, _, _)
AddLoop(lines, channel, buf, idx, timestamp) ==
  IF idx > Len(buf) THEN lines
  ELSE
    LET b == buf[idx]
    IN  IF lines # <<>> /\ (b = CR \/ b = LF)
          THEN AddLoop(SetLast(lines, Seal(Last(lines))), channel, buf, idx + 1, timestamp)
        ELSE IF lines = <<>> /\ (b = CR \/ b = LF)
          THEN AddLoop(lines, channel, buf, idx + 1, timestamp)
        ELSE IF lines = <<>>
          THEN AddLoop(<<NewItem(lines, channel, b, timestamp)>>, channel, buf, idx + 1, timestamp)
        ELSE
          LET tail == SealChecks(Last(lines), channel, timestamp)
              marked == SetLast(lines, tail)
          IN  IF tail.flags % 2 = 0
                THEN AddLoop(SetLast(lines, AppendByte(tail, b)), channel, buf, idx + 1, timestamp)
                ELSE AddLoop(Append(marked, NewItem(marked, channel, b, timestamp)),
                             channel, buf, idx + 1, timestamp)

\* mutant: the enabled flag of the channel is not looked at
tracestring_add_NoCheck(lines, chans, channel, buf, timestamp) ==
  AddLoop(lines, channel, StripNul(buf), 1, timestamp)
\* tracestring_add(channel, buffer, length, timestamp) on the list `lines`
\* with the channel registry `chans`
tracestring_add(lines, chans, channel, buf, timestamp) ==
  IF ~chans[channel] THEN lines
  ELSE AddLoop(lines, channel, StripNul(buf), 1, timestamp)

\* sprintf("%.6f") of a relative time held in milliseconds
Format6(ms) ==
  LET a == IF ms < 0 THEN 0 - ms ELSE ms
  IN  <<IF ms < 0 THEN "-" ELSE "", a \div 1000, (a % 1000) * 1000>>

\* tracelog_statusmsg(type, msg, code): an item with the message is put
\* behind the last item of the list
tracelog_statusmsg(log, type, msg, code) ==
  Append(log, [text |-> msg, channel |-> type, flags |-> code])

\* ctf_decode(buffer, length, channel): the number of messages it has put
\* on the message stack, or a negative number on an error of the stream,
\* which it reports through tracelog_statusmsg; `outcome` is what the
\* decoder makes of the bytes
ctf_decode(log, outcome) ==
  [count |-> outcome.count,
   stack |-> outcome.messages,
   log |-> IF outcome.count < 0
             THEN tracelog_statusmsg(log, "CTF", outcome.text, outcome.count)
             ELSE log]

\* while (msgstack_peek(&streamid, &tstamp, &message)) { ... msgstack_pop }:
\* one item per message; a time of the remote host above 0.001 s replaces
\* the timestamp, also for the messages behind it
RECURSIVE DrainStack(_, _, _)
DrainStack(lines, stack, timestamp) ==
  IF stack = <<>> THEN lines
  ELSE
    LET msg == Head(stack)
        remote == msg.tstamp > 1
        ts == IF remote THEN msg.tstamp ELSE timestamp
        rel == IF lines # <<>> THEN ts - lines[1].timestamp ELSE 0
        item == [text |-> msg.text, length |-> Len(msg.text), size |-> Len(msg.text) + 1,
                 channel |-> msg.streamid, timestamp |-> ts, flags |-> 0,
                 timefmt |-> IF remote THEN Format6(rel) ELSE Format3(rel)]
    IN  DrainStack(Append(lines, item), Tail(stack), ts)

\* mutant: the messages are taken from the stack whatever ctf_decode returns
StreamAdd_Any(lines, log, chans, channel, timestamp, outcome) ==
  IF ~chans[channel] THEN [lines |-> lines, log |-> log]
  ELSE LET r == ctf_decode(log, outcome)
       IN  [lines |-> DrainStack(lines, r.stack, timestamp), log |-> r.log]
\* tracestring_add(channel, buffer, length, timestamp) for a channel with an
\* active stream (CTF mode)
StreamAdd(lines, log, chans, channel, timestamp, outcome) ==
  IF ~chans[channel] THEN [lines |-> lines, log |-> log]
  ELSE LET r == ctf_decode(log, outcome)
       IN  [lines |-> IF r.count > 0 THEN DrainStack(lines, r.stack, timestamp) ELSE lines,
            log |-> r.log]

\* tracestring_isempty(): tracestring_root.next == NULL
tracestring_isempty(lines) == lines = <<>>
\* tracestring_count(): the items met from tracestring_root.next on
tracestring_count(lines) == Len(lines)

(***************************************************************************)
(* ITM text decoder: the body of the while loop of tracestring_process     *)
(* for one queued frame (enabled = true)                                   *)
(***************************************************************************)
\* bytes from..from+n-1 (1-based) of the slot's data array
SlotBytes(pkt, from, n) == [k \in 1..n |-> SlotByte(pkt, from + k - 1)]

\* memcpy(itm_cache, pktdata, n): the first n bytes of the cache are replaced
CacheStore(cache, bytes) ==
  [k \in 1..ITM_CACHESIZE |-> IF k <= Len(bytes) THEN bytes[k] ELSE cache[k]]

\* mutant: the size of a data word is not checked
SizeCheck_Off(len, datasize, auto) == "ok"
\* what the size check does with a packet of `len` bytes: "ok", or "error"
SizeCheck(len, datasize, auto) ==
  IF len > datasize /\ ~auto THEN "error" ELSE "ok"

\* mutant: a larger data word does not adjust the data size
GrowSize_Keep(len, datasize) == datasize
\* itm_datasize after a packet of `len` bytes passed the size check
GrowSize(len, datasize) == IF len > datasize THEN len ELSE datasize

\* mutant: one byte more than the frame holds is counted as cached
CacheRest_OneMore(s, pkt) ==
  [s EXCEPT !.cache = CacheStore(s.cache, SlotBytes(pkt, s.pos + 1, s.pktlen)),
            !.cachefilled = s.pktlen + 1,
            !.at = "end"]
\* store remaining data in the packet in the cache and quit
CacheRest(s, pkt) ==
  [s EXCEPT !.cache = CacheStore(s.cache, SlotBytes(pkt, s.pos + 1, s.pktlen)),
            !.cachefilled = s.pktlen,
            !.at = "end"]

\* while (pktlen > 0) { ... }: s.pos bytes of the frame are consumed,
\* s.pktlen remain (negative: wrapped below zero)
RECURSIVE TextLoop(_, _, _)
TextLoop(s, pkt, chans) ==
  IF s.at # "run" \/ s.pktlen = 0 THEN s
  ELSE IF s.pos + 1 > PACKET_SIZE THEN [s EXCEPT !.at = "fault"]
  ELSE
    LET b == SlotByte(pkt, s.pos + 1)
        len == ITM_LENGTH(b)
    IN  IF b = 23   \* 0x17, profile packet (PC address)
          THEN TextLoop([s EXCEPT !.pos = s.pos + 5,
                                  !.pktlen = IF s.pktlen > 5 \/ s.pktlen < 0
                                               THEN s.pktlen - 5 ELSE 0],
                        pkt, chans)
        ELSE IF ~ITM_VALIDHDR(b)
          THEN [s EXCEPT !.errors = s.errors + 1, !.at = "skip"]
        ELSE
          LET s1 == IF s.chan # ITM_CHANNEL(b)
                      THEN [s EXCEPT
                              !.lines = IF s.chan < NUM_CHANNELS /\ Len(s.buffer) > 0
                                          THEN tracestring_add(s.lines, chans, s.chan,
                                                               s.buffer, pkt.timestamp)
                                          ELSE s.lines,
                              !.chan = ITM_CHANNEL(b),
                              !.buffer = <<>>]
                      ELSE s
          IN  IF s1.pktlen >= 0 /\ s1.pktlen < len + 1
                THEN CacheRest(s1, pkt)
              ELSE IF SizeCheck(len, s1.datasize, s1.auto) = "error"
                THEN [s1 EXCEPT !.errors = s1.errors + 1, !.at = "skip"]
              ELSE IF s1.pos + 1 + len > PACKET_SIZE
                        \/ Len(s1.buffer) + len > PACKET_SIZE
                THEN [s1 EXCEPT !.at = "fault"]
              ELSE TextLoop([s1 EXCEPT
                               !.datasize = GrowSize(len, s1.datasize),
                               !.buffer = s1.buffer \o SlotBytes(pkt, s1.pos + 2, len),
                               !.pos = s1.pos + len + 1,
                               !.pktlen = s1.pktlen - (len + 1)],
                            pkt, chans)

\* the cached header is completed from the head of the frame
AfterCache(s, pkt, len) ==
  LET skip == len - (s.cachefilled - 1)
  IN  [s EXCEPT !.buffer = SubSeq(s.cache, 2, s.cachefilled) \o SlotBytes(pkt, 1, skip),
                !.pos = skip,
                !.pktlen = s.pktlen - skip,
                !.cachefilled = 0]

\* if (itm_cachefilled > 0) { ... } else { ... }
TextStart(s, pkt) ==
  IF s.cachefilled > 0
    THEN LET len == ITM_LENGTH(s.cache[1])
             s0 == [s EXCEPT !.chan = ITM_CHANNEL(s.cache[1])]
         IN  IF SizeCheck(len, s.datasize, s.auto) = "error"
               THEN [s0 EXCEPT !.errors = s.errors + 1, !.at = "skip"]
             ELSE IF s.cachefilled > 4 \/ len - (s.cachefilled - 1) <= 0
               THEN [s0 EXCEPT !.at = "fault"]   \* assert
             ELSE AfterCache([s0 EXCEPT !.datasize = GrowSize(len, s.datasize)], pkt, len)
    ELSE IF s.pktlen = 0
      THEN [s EXCEPT !.at = "fault"]             \* assert(pktlen > 0)
      ELSE [s EXCEPT !.chan = ITM_CHANNEL(SlotByte(pkt, 1))]

\* the decoder state d = [cache, cachefilled, datasize, auto, errors, lines]
\* after the frame pkt; .at is "end" (normal end of the frame, emitted is 1
\* when the closing tracestring_add ran), "skip" (goto skip_packet) or
\* "fault" (a failed assertion or an access outside an array)
TextFrame(d, pkt, chans) ==
  LET s0 == [cache |-> d.cache, cachefilled |-> d.cachefilled,
             datasize |-> d.datasize, auto |-> d.auto, errors |-> d.errors,
             lines |-> d.lines, pos |-> 0, pktlen |-> pkt.length,
             chan |-> NUM_CHANNELS, buffer |-> <<>>, at |-> "run", emitted |-> 0]
      s1 == TextLoop(TextStart(s0, pkt), pkt, chans)
  IN  IF s1.at \in {"skip", "fault"} THEN s1
      ELSE IF s1.chan < NUM_CHANNELS /\ Len(s1.buffer) > 0
        THEN [s1 EXCEPT !.lines = tracestring_add(s1.lines, chans, s1.chan,
                                                  s1.buffer, pkt.timestamp),
                        !.emitted = 1, !.at = "end"]
        ELSE [s1 EXCEPT !.at = "end"]

(***************************************************************************)
(* Searching the trace store                                               *)
(***************************************************************************)
\* toupper() in the "C" locale
toupper(c) == IF c >= 97 /\ c <= 122 THEN c - 32 ELSE c

\* memicmp(p1, p2, count): 0 if the bytes are equal but for case (of the
\* difference only zero or not zero is kept)
memicmp(p1, p2, count) ==
  IF \A k \in 1..count : toupper(p1[k]) = toupper(p2[k]) THEN 0 ELSE 1

\* text[0] of a C string: the terminator if the string is empty
FirstChar(text) == IF Len(text) > 0 THEN text[1] ELSE 0

\* while (idx < item->length && toupper(item->text[idx]) != toupper(text[0])) idx++;
RECURSIVE ScanTo(_, _, _)
ScanTo(item, idx, c) ==
  IF idx < item.length /\ toupper(item.text[idx + 1]) # toupper(c)
    THEN ScanTo(item, idx + 1, c)
    ELSE idx

\* while (idx < item->length) { ... }: the value of idx after the loop
RECURSIVE LineSearch(_, _, _)
LineSearch(item, text, idx) ==
  IF ~(idx < item.length) THEN idx
  ELSE
    LET i == ScanTo(item, idx, FirstChar(text))
    IN  IF i + Len(text) > item.length THEN i
        ELSE IF memicmp(SubSeq(item.text, i + 1, i + Len(text)), text, Len(text)) = 0
          THEN i
        ELSE LineSearch(item, text, i + 1)

\* if (idx + len <= item->length) return line;
FoundOnLine(item, text) == LineSearch(item, text, 0) + Len(text) <= item.length

\* the second loop of tracestring_find, item being line `line` of the list
\* (NULL if there is no such line).  The result tells the value returned
\* and the lines searched, in order; .returns is FALSE when the loop comes
\* back to a line it has searched with nothing changed, and so never ends.
RECURSIVE FindLoop(_, _, _, _, _, _)
FindLoop(lines, text, line, cur_mark, curline, examined) ==
  IF ~((line # cur_mark \/ curline < 0) /\ line < Len(lines))
    THEN [returns |-> TRUE, line |-> 0 - 1, examined |-> examined]
  ELSE IF Len(examined) > Len(lines) + 1
    THEN [returns |-> FALSE, line |-> 0 - 1, examined |-> examined]
  ELSE IF FoundOnLine(lines[line + 1], text)
    THEN [returns |-> TRUE, line |-> line, examined |-> Append(examined, line)]
  ELSE FindLoop(lines, text, IF line + 1 < Len(lines) THEN line + 1 ELSE 0,
                cur_mark, cur_mark, Append(examined, line))

\* tracestring_find(text, curline) on the list `lines`
tracestring_find(lines, text, curline) ==
  LET cur_mark == curline + 1
      walked == Min(cur_mark, Len(lines))
  IN  IF walked >= Len(lines) \/ curline < 0
        THEN FindLoop(lines, text, 0, cur_mark, curline, <<>>)
        ELSE FindLoop(lines, text, walked + 1, cur_mark, curline, <<>>)

\* for (item = root.next; item != NULL && item->timestamp < timestamp; ...) line += 1;
RECURSIVE LeadingBefore(_, _)
LeadingBefore(lines, timestamp) ==
  IF lines # <<>> /\ lines[1].timestamp < timestamp
    THEN 1 + LeadingBefore(Tail(lines), timestamp)
    ELSE 0

\* tracestring_findtimestamp(timestamp) on the list `lines`
tracestring_findtimestamp(lines, timestamp) == LeadingBefore(lines, timestamp) - 1

(***************************************************************************)
(* The profile decoder: traceprofile_process on one frame                  *)
(***************************************************************************)
\* memcpy(&pc, p, 4) on the little-endian hosts the viewer is built for
PcOf(bytes) == bytes[1] + 256 * bytes[2] + 65536 * bytes[3] + 16777216 * bytes[4]

\* the bucket of an address: one bucket per 16-bit instruction slot
Address2Index(addr, base) == (addr - base) \div 2

\* sample_map holds the buckets that were incremented, every other bucket
\* of the caller's array is still zero
Bucket(map, idx) == IF idx \in DOMAIN map THEN map[idx] ELSE 0

\* mutant: a sample outside the code range is dropped
addsample_InRange(pc, map, base, top) ==
  IF pc < base \/ pc >= top THEN map
  ELSE [i \in DOMAIN map \cup {Address2Index(pc, base)} |->
          IF i = Address2Index(pc, base) THEN Bucket(map, i) + 1 ELSE map[i]]
addsample(pc, map, base, top) ==
  LET p == IF pc < base \/ pc >= top THEN top ELSE pc
      idx == Address2Index(p, base)
  IN  [i \in DOMAIN map \cup {idx} |-> IF i = idx THEN Bucket(map, idx) + 1 ELSE map[i]]

\* first handle cached data (that crosses USB packets)
ProfCache(s, pkt, base, top) ==
  IF s.cachefilled = 0 THEN s
  ELSE
    LET hdr == s.cache[1]
        full == IF ITM_VALIDHDR(hdr) THEN ITM_LENGTH(hdr) + 1 ELSE 5
        needed == full - s.cachefilled
    IN  IF ~(s.cachefilled < full) THEN [s EXCEPT !.at = "fault"]   \* assert
        ELSE IF needed > s.pktlen
          THEN [s EXCEPT
                  !.cache = [k \in 1..ITM_CACHESIZE |->
                               IF k > s.cachefilled /\ k <= s.cachefilled + s.pktlen
                                 THEN SlotByte(pkt, k - s.cachefilled)
                                 ELSE s.cache[k]],
                  !.cachefilled = s.cachefilled + s.pktlen,
                  !.pos = s.pktlen,
                  !.pktlen = 0]
        ELSE
          LET buffer == SubSeq(s.cache, 1, s.cachefilled) \o SlotBytes(pkt, 1, needed)
              sample == buffer[1] = 23
          IN  [s EXCEPT
                 !.map = IF sample
                           THEN addsample(PcOf(SubSeq(buffer, 2, 5)), s.map, base, top)
                           ELSE s.map,
                 !.count = IF sample THEN s.count + 1 ELSE s.count,
                 !.pos = needed,
                 !.pktlen = s.pktlen - needed,
                 !.cachefilled = 0]

\* mutant: the bytes of a packet cut by the end of the frame are not kept
ProfRest_Forget(s, pkt) ==
  [s EXCEPT !.pos = s.pos + s.pktlen, !.pktlen = 0]
\* memcpy(itm_cache, pktdata, pktlen); itm_cachefilled = pktlen; pktlen = 0;
ProfRest(s, pkt) ==
  [s EXCEPT !.cache = CacheStore(s.cache, SlotBytes(pkt, s.pos + 1, s.pktlen)),
            !.cachefilled = s.pktlen,
            !.pos = s.pos + s.pktlen,
            !.pktlen = 0]

\* while (pktlen > 0) { ... }
RECURSIVE ProfLoop(_, _, _, _)
ProfLoop(s, pkt, base, top) ==
  IF s.at # "run" \/ s.pktlen = 0 THEN s
  ELSE
    LET b == SlotByte(pkt, s.pos + 1)
    IN  IF b = 23   \* 0x17, PC sample packet
          THEN IF s.pktlen >= 5
                 THEN ProfLoop([s EXCEPT
                                  !.map = addsample(PcOf(SlotBytes(pkt, s.pos + 2, 4)),
                                                    s.map, base, top),
                                  !.count = s.count + 1,
                                  !.pos = s.pos + 5,
                                  !.pktlen = s.pktlen - 5],
                               pkt, base, top)
                 ELSE ProfRest(s, pkt)
        ELSE IF b = 112   \* 0x70, overflow packet
          THEN ProfLoop([s EXCEPT !.overflow = s.overflow + 1,
                                  !.pos = s.pos + 1,
                                  !.pktlen = s.pktlen - 1],
                        pkt, base, top)
        ELSE   \* unknown/unsupported packet
          LET len == (IF ITM_VALIDHDR(b) THEN ITM_LENGTH(b) ELSE 4) + 1
          IN  IF s.pktlen >= len
                THEN ProfLoop([s EXCEPT !.pos = s.pos + len, !.pktlen = s.pktlen - len],
                              pkt, base, top)
                ELSE ProfRest(s, pkt)

\* the carry cache d = [cache, cachefilled], the histogram and the two
\* counters after the frame pkt; .at is "end" or "fault" (a failed assertion)
ProfileFrame(d, pkt, map, base, top) ==
  LET s0 == [cache |-> d.cache, cachefilled |-> d.cachefilled, map |-> map,
             count |-> 0, overflow |-> 0, pos |-> 0, pktlen |-> pkt.length,
             at |-> "run"]
      s1 == ProfLoop(ProfCache(s0, pkt, base, top), pkt, base, top)
  IN  IF s1.at = "fault" THEN s1 ELSE [s1 EXCEPT !.at = "end"]

(***************************************************************************)
(* The timeline: timeline_rebuild                                          *)
(***************************************************************************)
MARK_SECOND == 1000000

\* a TIMELINE: marks holds the first `length` entries of the array, size is
\* the number of entries allocated (marks is NULL exactly when it is 0)
EmptyTimeline == [marks |-> <<>>, length |-> 0, size |-> 0]

\* convert timestamp to position; positions are held in tenths of a display
\* unit (with the initial configuration a tenth is a millisecond)
\* (the factor MARK_SECOND / 100 is divided out of scale * delta where that
\* is exact, to keep the product small)
MarkPos(timestamp, offset, spacing, scale, delta) ==
  LET num == (timestamp - offset) * spacing
      den == scale * delta
      k == MARK_SECOND \div 100
  IN  IF scale % k = 0 THEN num \div ((scale \div k) * delta)
      ELSE IF den % k = 0 THEN num \div (den \div k)
      ELSE (num * k) \div den

\* mutant: marks never collapse
Collapses_Never(pos, last) == FALSE
\* (pos - timeline[chan].marks[idx - 1].pos) < 0.5
Collapses(pos, last) == pos - last < 5

\* make sure array is big enough for another mark; malloc and realloc
\* succeed as long as s.allocs is positive
GrowMarks(s, chan) ==
  LET tl == s.timeline[chan]
  IN  IF tl.length = tl.size /\ s.allocs > 0
        THEN [s EXCEPT !.timeline[chan].size = IF tl.size = 0 THEN 32 ELSE tl.size * 2,
                       !.allocs = s.allocs - 1]
        ELSE s

\* the mark of one line is added to the timeline of its channel
AddMark(s, chan, pos) ==
  LET tl == s.timeline[chan]
      idx == tl.length
  IN  IF s.asserts /\ ~(idx = 0 \/ pos >= tl.marks[idx].pos)
        THEN [s EXCEPT !.at = "fault"]   \* assert
      ELSE
        LET s1 == IF idx > 0 /\ Collapses(pos, tl.marks[idx].pos)
                    THEN [s EXCEPT
                            !.timeline[chan].marks[idx].count = tl.marks[idx].count + 1,
                            !.maxcount = Max(s.maxcount, tl.marks[idx].count + 1)]
                    ELSE [s EXCEPT
                            !.timeline[chan].marks = Append(tl.marks, [pos |-> pos, count |-> 1]),
                            !.timeline[chan].length = idx + 1]
        IN  [s1 EXCEPT !.maxpos = Max(s.maxpos, pos)]

\* for (item = tracestring_root.next; item != NULL; item = item->next) { ... }
\* from line k of the list
RECURSIVE RebuildLoop(_, _, _, _, _)
RebuildLoop(s, lines, k, chans, cfg) ==
  IF k > Len(lines) \/ s.at # "run" THEN s
  ELSE
    LET chan == lines[k].channel
    IN  IF ~chans[chan] THEN RebuildLoop(s, lines, k + 1, chans, cfg)
        ELSE IF s.skip > 0
          THEN RebuildLoop([s EXCEPT !.skip = s.skip - 1], lines, k + 1, chans, cfg)
        ELSE
          LET s1 == GrowMarks(s, chan)
          IN  IF s1.timeline[chan].length = s1.timeline[chan].size
                THEN RebuildLoop(s1, lines, k + 1, chans, cfg)
                ELSE RebuildLoop(AddMark(s1, chan,
                                         MarkPos(lines[k].timestamp, lines[1].timestamp,
                                                 cfg.spacing, cfg.scale, cfg.delta)),
                                 lines, k + 1, chans, cfg)

\* the sum of the lengths of the timelines of the channels below n
RECURSIVE TotalMarks(_, _)
TotalMarks(tls, n) == IF n = 0 THEN 0 ELSE tls[n - 1].length + TotalMarks(tls, n - 1)

\* timeline_rebuild(limitlines) on the list `lines`: t holds the statics
\* (timeline, maxpos, maxcount, timeoffset, skiplines), cfg the mark
\* configuration, allocs the allocations that succeed, asserts tells whether
\* the build has assertions (no NDEBUG)
timeline_rebuild(t, lines, chans, cfg, limitlines, allocs, asserts) ==
  LET skip0 == IF limitlines < 0 THEN 0 ELSE t.skiplines
  IN  IF lines = <<>>
        THEN [timeline |-> [c \in 0..(NUM_CHANNELS - 1) |-> EmptyTimeline],
              maxpos |-> 0, maxcount |-> 1, timeoffset |-> 0, skiplines |-> 0,
              at |-> "end"]
      ELSE
        LET s0 == [timeline |-> [c \in 0..(NUM_CHANNELS - 1) |->
                                   [t.timeline[c] EXCEPT !.marks = <<>>, !.length = 0]],
                   maxpos |-> 0, maxcount |-> 1, skip |-> skip0, allocs |-> allocs,
                   asserts |-> asserts, at |-> "run"]
            s1 == RebuildLoop(s0, lines, 1, chans, cfg)
            total == TotalMarks(s1.timeline, NUM_CHANNELS)
        IN  [timeline |-> s1.timeline, maxpos |-> s1.maxpos, maxcount |-> s1.maxcount,
             timeoffset |-> lines[1].timestamp,
             skiplines |-> IF limitlines > 0
                             THEN (IF total > limitlines THEN total - limitlines ELSE 0)
                             ELSE skip0,
             at |-> IF s1.at = "fault" THEN "fault" ELSE "end"]

(***************************************************************************)
(* The mark configuration: mark_spacing is a float, held as the record     *)
(* [m, e] of the value m * 2^e with 2^23 <= m < 2^24 (IEEE single          *)
(* precision, round to nearest even; the spacings met stay far from the    *)
(* subnormal numbers and from infinity)                                    *)
(***************************************************************************)
\* n / d rounded to the nearest integer, a tie to the even one
RoundEven(n, d) ==
  LET q == n \div d
      r == n % d
  IN  IF 2 * r > d \/ (2 * r = d /\ q % 2 = 1) THEN q + 1 ELSE q

\* the float nearest to (n / d) * 2^e, for n > 0
RECURSIVE FltRound(_, _, _)
FltRound(n, d, e) ==
  IF n >= d * (2^24) THEN FltRound(n, 2 * d, e + 1)
  ELSE IF n < d * (2^23) THEN FltRound(2 * n, d, e - 1)
  ELSE LET q == RoundEven(n, d)
       IN  IF q = 2^24 THEN [m |-> 2^23, e |-> e + 1] ELSE [m |-> q, e |-> e]

\* the float of a positive integer below 2^24
FltOf(i) == FltRound(i, 1, 0)

\* x * (n / d): the operands are converted to double, the product or
\* quotient is exact or correctly rounded there, and the conversion back to
\* float gives the float nearest to the exact result
FltScale(x, n, d) == FltRound(x.m * n, d, x.e)

\* (long)x, for 0 < x < 2^31
FltFloor(x) ==
  IF x.e >= 0 THEN x.m * (2^x.e)
  ELSE IF x.e < 0 - 23 THEN 0
  ELSE x.m \div (2^(0 - x.e))

\* x has no fractional part
FltWhole(x) == x.e >= 0 \/ (x.e >= 0 - 23 /\ x.m % (2^(0 - x.e)) = 0)

\* x > c and x < c for a positive integer c
FltAbove(x, c) == FltFloor(x) > c \/ (FltFloor(x) = c /\ ~FltWhole(x))
FltBelow(x, c) == FltFloor(x) < c

\* the units the first row of the widget has a name for: us, ms, s, min
MarkUnits == {1, 1000, MARK_SECOND, 60 * MARK_SECOND}

\* mutant: timeline_setconfig takes the scales that are units only
timeline_setconfig_Units(cfg, spacing, scale, delta) ==
  IF FltAbove(spacing, 10) /\ scale \in MarkUnits /\ delta > 0 /\ delta <= 100
    THEN [spacing |-> spacing, scale |-> scale, delta |-> delta]
    ELSE cfg
\* timeline_setconfig(spacing, scale, delta) on the configuration cfg; the
\* spacing passed is a double that a float holds exactly
timeline_setconfig(cfg, spacing, scale, delta) ==
  IF FltAbove(spacing, 10) /\ scale > 0 /\ delta > 0 /\ delta <= 100
    THEN [spacing |-> spacing, scale |-> scale, delta |-> delta]
    ELSE cfg

\* the "+" button of the widget, up to the call of timeline_rebuild
\* (mark_scale and mark_deltatime are unsigned long; the values met here
\* stay below 2^31)
ZoomIn(cfg) ==
  LET s1 == FltScale(cfg.spacing, 3, 2)
  IN  IF FltAbove(s1, 700) /\ (cfg.delta > 1 \/ cfg.scale > 1)
        THEN LET d1 == cfg.delta \div 10
                 s2 == FltScale(s1, 1, 10)
             IN  IF d1 = 0 /\ cfg.scale >= 1000
                   THEN [spacing |-> s2, scale |-> cfg.scale \div 1000, delta |-> 100]
                   ELSE [spacing |-> s2, scale |-> cfg.scale, delta |-> d1]
        ELSE [spacing |-> s1, scale |-> cfg.scale, delta |-> cfg.delta]

\* the "-" button of the widget, up to the call of timeline_rebuild
ZoomOut(cfg) ==
  LET s1 == IF FltAbove(cfg.spacing, 45) \/ cfg.scale < 60000000 \/ cfg.delta = 1
              THEN FltScale(cfg.spacing, 2, 3)
              ELSE cfg.spacing
  IN  IF FltBelow(s1, 70)
        THEN LET d1 == cfg.delta * 10
                 s2 == FltScale(s1, 10, 1)
             IN  IF cfg.scale < MARK_SECOND /\ d1 >= 1000
                   THEN [spacing |-> s2, scale |-> cfg.scale * 1000, delta |-> d1 \div 1000]
                   ELSE [spacing |-> s2, scale |-> cfg.scale, delta |-> d1]
        ELSE [spacing |-> s1, scale |-> cfg.scale, delta |-> cfg.delta]

(***************************************************************************)
(* State                                                                   *)
(***************************************************************************)
VARIABLES
  \* the packet ring
  trace_queue, tracequeue_head, tracequeue_tail, tracequeue_overflow,
  \* the ITM decoder
  itm_cache, itm_cachefilled, itm_datasize, itm_datasz_auto, itm_packet_errors,
  \* the trace store (tracestring_root.next .. tracestring_tail) and the
  \* enabled flags of the channel registry; the list of status messages
  \* (statusmessage_root.next and on)
  tracestrings, channels, statusmessages,
  \* the reader thread: its position in trace_read and its locals (buffer
  \* with numread bytes, next, the slot index it writes, the value loaded
  \* for overflow += 1, the stores of the enqueue that have taken effect)
  reader_pc, rd_buffer, rd_next, rd_slot, rd_tmp, rd_done,
  \* the UI thread: its position, the parameter and the count of
  \* tracestring_process, where trace_close returns to, the transport asked
  \* of trace_init, the code trace_init returned, the operation that
  \* returned last, the trace list when trace_close was called, the number
  \* of trace_init calls
  ui_pc, ui_enabled, ui_count, ui_cont, ui_tcp, init_result, last_op, lines_before,
  init_count,
  \* the build and the session handles; the transports currently open
  platform, hThread, hUSBiface, TraceSocket, force_exit, usb_open, sockets_open,
  \* get_timestamp, the frames read by the reader, the frames decoded, the
  \* number of frames published and the number of frames dequeued, how the
  \* decoding of the last frame ended ("end", "skip", "fault")
  clock, produced, processed, enq_count, deq_count, last_at,
  \* the direct calls of tracestring_add made so far (channel, buffer,
  \* timestamp), in order; the state at the last call of
  \* tracestring_process or traceprofile_process
  adds, call0,
  \* the last search of the trace store: the function, its arguments and
  \* its outcome
  search,
  \* the profile decoder: the caller's histogram and overflow counter, and
  \* of the running call whether it passes the histogram (sample_map !=
  \* NULL) and its overflow_count
  sample_map, overflow, ui_map, overflow_count,
  \* the timeline: the marks of each channel, the statics of
  \* timeline_rebuild (skiplines is local to it) and the mark configuration
  timeline, timeline_maxpos, timeline_maxcount, timeoffset, skiplines,
  mark_spacing, mark_scale, mark_deltatime,
  \* the widget: the tail of the list at the last rebuild by the widget
  \* (0 for NULL, the number of the line, -1 once that line was freed), and
  \* of the clicks on "+" and "-" their number and the last two, each with
  \* the configuration it met
  tracestring_tail_prev, clicks,
  \* the calls of timeline_rebuild from the UI that followed each other
  \* with nothing in between: their limitlines and their number (3 stands
  \* for 3 or more)
  rebuilds

ringVars == <<trace_queue, tracequeue_head, tracequeue_tail, tracequeue_overflow>>
itmVars == <<itm_cache, itm_cachefilled, itm_datasize, itm_datasz_auto, itm_packet_errors>>
storeVars == <<tracestrings, channels, statusmessages>>
readerVars == <<reader_pc, rd_buffer, rd_next, rd_slot, rd_tmp, rd_done>>
procVars == <<ui_enabled, ui_count>>
lifeVars == <<ui_cont, ui_tcp, init_result, last_op, lines_before, init_count>>
sysVars == <<platform, hThread, hUSBiface, TraceSocket, force_exit, usb_open, sockets_open>>
logVars == <<clock, produced, processed, enq_count, deq_count, last_at>>
auxVars == <<adds, call0, search>>
profVars == <<sample_map, overflow, ui_map, overflow_count>>
tlVars == <<timeline, timeline_maxpos, timeline_maxcount, timeoffset, skiplines,
           mark_spacing, mark_scale, mark_deltatime, tracestring_tail_prev, clicks,
           rebuilds>>
vars == <<ringVars, itmVars, storeVars, readerVars, ui_pc, procVars, lifeVars,
          sysVars, logVars, auxVars, profVars, tlVars>>

INVALID_SOCKET == 0 - 1

(***************************************************************************)
(* The reader thread, trace_read                                           *)
(***************************************************************************)
ReaderRunning == reader_pc \notin {"none", "exited"}

\* POSIX: while (!force_exit && hThread != 0 && hUSBiface != NULL);
\* Windows: for ( ;; )
R_Test ==
  /\ reader_pc = "test"
  /\ IF platform = "posix" /\ ~(force_exit = 0 /\ hThread # 0 /\ hUSBiface # 0)
       THEN /\ force_exit' = 0
            /\ reader_pc' = "exited"
       ELSE /\ reader_pc' = "xfer"
            /\ UNCHANGED force_exit
  /\ UNCHANGED <<rd_buffer, rd_next, rd_slot, rd_tmp, rd_done>>
  /\ UNCHANGED <<ringVars, itmVars, storeVars, ui_pc, procVars, lifeVars, logVars>>
  /\ UNCHANGED <<platform, hThread, hUSBiface, TraceSocket, usb_open, sockets_open>>
  /\ UNCHANGED <<auxVars, profVars, tlVars>>

\* the blocking transport read returns numread > 0 bytes
R_XferData(frames) ==
  /\ reader_pc = "xfer"
  /\ \E f \in frames :
       /\ rd_buffer' = f
       /\ produced' = Append(produced, [data |-> f, length |-> Len(f),
                                         timestamp |-> 0, queued |-> FALSE])
  /\ reader_pc' = "check"
  /\ UNCHANGED <<rd_next, rd_slot, rd_tmp, rd_done, clock, processed, enq_count, deq_count, last_at>>
  /\ UNCHANGED <<ringVars, itmVars, storeVars, ui_pc, procVars, lifeVars, sysVars>>
  /\ UNCHANGED <<auxVars, profVars, tlVars>>

\* the transport read returns without data: a failed or empty transfer
\* (POSIX, WinUSB, libusbK; the Windows loops sleep 50 ms), recv() == 0
R_XferNone ==
  /\ reader_pc = "xfer"
  /\ reader_pc' = "test"
  /\ UNCHANGED <<rd_buffer, rd_next, rd_slot, rd_tmp, rd_done>>
  /\ UNCHANGED <<ringVars, itmVars, storeVars, ui_pc, procVars, lifeVars, sysVars, logVars>>
  /\ UNCHANGED <<auxVars, profVars, tlVars>>

\* Windows socket loop: recv() < 0 leaves the loop and the thread returns
R_SockError ==
  /\ reader_pc = "xfer"
  /\ platform = "win" /\ TraceSocket # INVALID_SOCKET
  /\ reader_pc' = "exited"
  /\ UNCHANGED <<rd_buffer, rd_next, rd_slot, rd_tmp, rd_done>>
  /\ UNCHANGED <<ringVars, itmVars, storeVars, ui_pc, procVars, lifeVars, sysVars, logVars>>
  /\ UNCHANGED <<auxVars, profVars, tlVars>>

\* int next = (tracequeue_tail + 1) % PACKET_NUM; if (next != tracequeue_head)
R_Check ==
  /\ reader_pc = "check"
  /\ rd_next' = NextIndex(tracequeue_tail)
  /\ rd_slot' = tracequeue_tail
  /\ rd_done' = {}
  /\ reader_pc' = IF RingFull(tracequeue_head, tracequeue_tail) THEN "ovf_load" ELSE "enq"
  /\ UNCHANGED <<rd_buffer, rd_tmp>>
  /\ UNCHANGED <<ringVars, itmVars, storeVars, ui_pc, procVars, lifeVars, sysVars, logVars>>
  /\ UNCHANGED <<auxVars, profVars, tlVars>>

\* The enqueue stores data, length and timestamp into the slot and then
\* tracequeue_tail.  All are plain stores to objects the decoder thread
\* reads without synchronisation (a data race): the order in which they
\* take effect for the other thread is not fixed.  R_Copy and R_Publish are
\* the two effects; each happens once per enqueue, in either order.
EnqueueDone(done) == IF done = {"copy", "publish"} THEN "test" ELSE "enq"

\* memcpy(trace_queue[tail].data, buffer, numread); .length = numread;
\* .timestamp = get_timestamp(); the clock advanced by dt since the last call
R_Copy(dts) ==
  /\ reader_pc = "enq"
  /\ "copy" \notin rd_done
  /\ \E dt \in dts :
       /\ clock' = clock + dt
       /\ trace_queue' = [trace_queue EXCEPT ![rd_slot] =
                            [data |-> CopyInto(trace_queue[rd_slot].data, rd_buffer),
                             length |-> Len(rd_buffer),
                             timestamp |-> clock + dt]]
       /\ produced' = [produced EXCEPT ![Len(produced)].timestamp = clock + dt,
                                       ![Len(produced)].queued = TRUE]
  /\ rd_done' = rd_done \cup {"copy"}
  /\ reader_pc' = EnqueueDone(rd_done')
  /\ UNCHANGED <<tracequeue_head, tracequeue_tail, tracequeue_overflow>>
  /\ UNCHANGED <<rd_buffer, rd_next, rd_slot, rd_tmp, processed, enq_count, deq_count, last_at>>
  /\ UNCHANGED <<itmVars, storeVars, ui_pc, procVars, lifeVars, sysVars>>
  /\ UNCHANGED <<auxVars, profVars, tlVars>>

\* tracequeue_tail = next;
R_Publish ==
  /\ reader_pc = "enq"
  /\ "publish" \notin rd_done
  /\ tracequeue_tail' = rd_next
  /\ enq_count' = enq_count + 1
  /\ rd_done' = rd_done \cup {"publish"}
  /\ reader_pc' = EnqueueDone(rd_done')
  /\ UNCHANGED <<trace_queue, tracequeue_head, tracequeue_overflow>>
  /\ UNCHANGED <<rd_buffer, rd_next, rd_slot, rd_tmp>>
  /\ UNCHANGED <<clock, produced, processed, deq_count, last_at>>
  /\ UNCHANGED <<itmVars, storeVars, ui_pc, procVars, lifeVars, sysVars>>
  /\ UNCHANGED <<auxVars, profVars, tlVars>>

\* tracequeue_overflow += 1, the load
R_OvfLoad ==
  /\ reader_pc = "ovf_load"
  /\ rd_tmp' = tracequeue_overflow
  /\ reader_pc' = "ovf_store"
  /\ UNCHANGED <<rd_buffer, rd_next, rd_slot, rd_done>>
  /\ UNCHANGED <<ringVars, itmVars, storeVars, ui_pc, procVars, lifeVars, sysVars, logVars>>
  /\ UNCHANGED <<auxVars, profVars, tlVars>>

\* tracequeue_overflow += 1, the store
R_OvfStore ==
  /\ reader_pc = "ovf_store"
  /\ tracequeue_overflow' = rd_tmp + 1
  /\ reader_pc' = "test"
  /\ UNCHANGED <<trace_queue, tracequeue_head, tracequeue_tail>>
  /\ UNCHANGED <<rd_buffer, rd_next, rd_slot, rd_tmp, rd_done>>
  /\ UNCHANGED <<itmVars, storeVars, ui_pc, procVars, lifeVars, sysVars, logVars>>
  /\ UNCHANGED <<auxVars, profVars, tlVars>>

(***************************************************************************)
(* The decoder, tracestring_process(enabled), on the UI thread             *)
(***************************************************************************)
\* the frame the decoder sees in a slot: its first `length` bytes
Observed(pkt) ==
  [data |-> SlotBytes(pkt, 1, pkt.length), length |-> pkt.length,
   timestamp |-> pkt.timestamp]

DecoderState ==
  [cache |-> itm_cache, cachefilled |-> itm_cachefilled, datasize |-> itm_datasize,
   auto |-> itm_datasz_auto, errors |-> itm_packet_errors, lines |-> tracestrings]

\* what a call of tracestring_process or traceprofile_process finds
CallState ==
  [lines |-> tracestrings, cache |-> itm_cache, cachefilled |-> itm_cachefilled,
   datasize |-> itm_datasize, errors |-> itm_packet_errors, map |-> sample_map,
   queued |-> Queued(tracequeue_head, tracequeue_tail),
   overflow |-> tracequeue_overflow,
   enq |-> enq_count, deq |-> deq_count]

\* the code range the profiler is called with (0x20001000 .. 0x20002000)
code_base == 536875008
code_top == 536879104

\* the call: int count = 0;
P_Call(flags) ==
  /\ ui_pc = "idle"
  /\ \E e \in flags : ui_enabled' = e
  /\ ui_count' = 0
  /\ ui_pc' = "proc_test"
  /\ last_op' = "tracestring_process"
  /\ UNCHANGED <<ui_cont, ui_tcp, init_result, lines_before, init_count>>
  /\ UNCHANGED <<ringVars, itmVars, storeVars, readerVars, sysVars, logVars>>
  /\ call0' = CallState
  /\ UNCHANGED <<adds, search, profVars, tlVars>>

\* while (tracequeue_head != tracequeue_tail)
P_Test ==
  /\ ui_pc = "proc_test"
  /\ ui_pc' = IF tracequeue_head # tracequeue_tail THEN "proc_frame" ELSE "proc_end"
  /\ UNCHANGED <<ringVars, itmVars, storeVars, readerVars, procVars, lifeVars,
                 sysVars, logVars>>
  /\ UNCHANGED <<auxVars, profVars, tlVars>>

\* the loop body up to skip_packet: decode slot tracequeue_head if enabled
P_Frame ==
  /\ ui_pc = "proc_frame"
  /\ IF ui_enabled
       THEN LET pkt == trace_queue[tracequeue_head]
                r == TextFrame(DecoderState, pkt, channels)
            IN  /\ processed' = Append(processed, Observed(pkt))
                /\ itm_cache' = r.cache
                /\ itm_cachefilled' = r.cachefilled
                /\ itm_datasize' = r.datasize
                /\ itm_packet_errors' = r.errors
                /\ tracestrings' = r.lines
                /\ ui_count' = ui_count + r.emitted
                /\ last_at' = r.at
                /\ ui_pc' = IF r.at = "fault" THEN "abort" ELSE "proc_adv"
       ELSE /\ ui_pc' = "proc_adv"
            /\ UNCHANGED <<processed, itm_cache, itm_cachefilled, itm_datasize,
                           itm_packet_errors, tracestrings, ui_count, last_at>>
  /\ UNCHANGED <<itm_datasz_auto, channels, statusmessages, ui_enabled, clock, produced>>
  /\ UNCHANGED <<enq_count, deq_count>>
  /\ UNCHANGED <<ringVars, readerVars, lifeVars, sysVars>>
  /\ UNCHANGED <<auxVars, profVars, tlVars>>

\* skip_packet: tracequeue_head = (tracequeue_head + 1) % PACKET_NUM;
P_Advance ==
  /\ ui_pc = "proc_adv"
  /\ tracequeue_head' = NextIndex(tracequeue_head)
  /\ deq_count' = deq_count + 1
  /\ ui_pc' = "proc_test"
  /\ UNCHANGED <<trace_queue, tracequeue_tail, tracequeue_overflow>>
  /\ UNCHANGED <<clock, produced, processed, enq_count, last_at>>
  /\ UNCHANGED <<itmVars, storeVars, readerVars, procVars, lifeVars, sysVars>>
  /\ UNCHANGED <<auxVars, profVars, tlVars>>

\* mutant: the disabled call returns without the reset
P_End_NoReset ==
  /\ ui_pc = "proc_end"
  /\ ui_pc' = "idle"
  /\ UNCHANGED <<ringVars, itmVars, storeVars, readerVars, procVars, lifeVars,
                 sysVars, logVars>>
  /\ UNCHANGED <<auxVars, profVars, tlVars>>

\* if (!enabled) tracequeue_overflow = 0; return count;
P_End ==
  /\ ui_pc = "proc_end"
  /\ tracequeue_overflow' = IF ~ui_enabled THEN 0 ELSE tracequeue_overflow
  /\ ui_pc' = "idle"
  /\ UNCHANGED <<trace_queue, tracequeue_head, tracequeue_tail>>
  /\ UNCHANGED <<itmVars, storeVars, readerVars, procVars, lifeVars, sysVars, logVars>>
  /\ UNCHANGED <<auxVars, profVars, tlVars>>

\* the call of traceprofile_process: int count = 0; int overflow_count = 0;
F_Call(flags, maps) ==
  /\ ui_pc = "idle"
  /\ \E e \in flags, mp \in maps : ui_enabled' = e /\ ui_map' = mp
  /\ ui_count' = 0
  /\ overflow_count' = 0
  /\ ui_pc' = "prof_test"
  /\ last_op' = "traceprofile_process"
  /\ call0' = CallState
  /\ UNCHANGED <<ui_cont, ui_tcp, init_result, lines_before, init_count>>
  /\ UNCHANGED <<ringVars, itmVars, storeVars, readerVars, sysVars, logVars>>
  /\ UNCHANGED <<adds, search, sample_map, overflow, tlVars>>

\* while (tracequeue_head != tracequeue_tail)
F_Test ==
  /\ ui_pc = "prof_test"
  /\ ui_pc' = IF tracequeue_head # tracequeue_tail THEN "prof_frame" ELSE "prof_end"
  /\ UNCHANGED <<ringVars, itmVars, storeVars, readerVars, procVars, lifeVars,
                 sysVars, logVars>>
  /\ UNCHANGED <<auxVars, profVars, tlVars>>

\* the loop body: if (enabled && sample_map != NULL) decode slot tracequeue_head
F_Frame ==
  /\ ui_pc = "prof_frame"
  /\ IF ui_enabled /\ ui_map
       THEN LET pkt == trace_queue[tracequeue_head]
                r == ProfileFrame([cache |-> itm_cache, cachefilled |-> itm_cachefilled],
                                  pkt, sample_map, code_base, code_top)
            IN  /\ processed' = Append(processed, Observed(pkt))
                /\ itm_cache' = r.cache
                /\ itm_cachefilled' = r.cachefilled
                /\ sample_map' = r.map
                /\ ui_count' = ui_count + r.count
                /\ overflow_count' = overflow_count + r.overflow
                /\ last_at' = r.at
                /\ ui_pc' = IF r.at = "fault" THEN "abort" ELSE "prof_adv"
       ELSE /\ ui_pc' = "prof_adv"
            /\ UNCHANGED <<processed, itm_cache, itm_cachefilled, sample_map,
                           ui_count, overflow_count, last_at>>
  /\ UNCHANGED <<itm_datasize, itm_datasz_auto, itm_packet_errors, storeVars>>
  /\ UNCHANGED <<ui_enabled, ui_map, overflow, clock, produced, enq_count, deq_count>>
  /\ UNCHANGED <<ringVars, readerVars, lifeVars, sysVars, auxVars, tlVars>>

\* tracequeue_head = (tracequeue_head + 1) % PACKET_NUM;
F_Advance ==
  /\ ui_pc = "prof_adv"
  /\ tracequeue_head' = NextIndex(tracequeue_head)
  /\ deq_count' = deq_count + 1
  /\ ui_pc' = "prof_test"
  /\ UNCHANGED <<trace_queue, tracequeue_tail, tracequeue_overflow>>
  /\ UNCHANGED <<clock, produced, processed, enq_count, last_at>>
  /\ UNCHANGED <<itmVars, storeVars, readerVars, procVars, lifeVars, sysVars>>
  /\ UNCHANGED <<auxVars, profVars, tlVars>>

\* if (overflow != NULL) *overflow = overflow_count; return count;
\* (the callers pass the address of a counter of theirs)
F_End ==
  /\ ui_pc = "prof_end"
  /\ overflow' = overflow_count
  /\ ui_pc' = "idle"
  /\ UNCHANGED <<ringVars, itmVars, storeVars, readerVars, procVars, lifeVars,
                 sysVars, logVars>>
  /\ UNCHANGED <<auxVars, sample_map, ui_map, overflow_count, tlVars>>

\* trace_overflowerrors(reset)
trace_overflowerrors(resets) ==
  /\ ui_pc = "idle"
  /\ \E reset \in resets :
       tracequeue_overflow' = IF reset THEN 0 ELSE tracequeue_overflow
  /\ last_op' = "trace_overflowerrors"
  /\ UNCHANGED <<trace_queue, tracequeue_head, tracequeue_tail>>
  /\ UNCHANGED <<ui_pc, ui_cont, ui_tcp, init_result, lines_before, init_count>>
  /\ UNCHANGED <<itmVars, storeVars, readerVars, procVars, sysVars, logVars>>
  /\ UNCHANGED <<auxVars, profVars, tlVars>>

\* trace_setdatasize(size), size in {0, 1, 2, 4}
trace_setdatasize(sizes) ==
  /\ ui_pc = "idle"
  /\ \E size \in sizes :
       /\ itm_datasize' = IF size = 0 THEN 1 ELSE size
       /\ itm_datasz_auto' = (size = 0)
  /\ itm_packet_errors' = 0
  /\ last_op' = "trace_setdatasize"
  /\ UNCHANGED <<itm_cache, itm_cachefilled>>
  /\ UNCHANGED <<ui_pc, ui_cont, ui_tcp, init_result, lines_before, init_count>>
  /\ UNCHANGED <<ringVars, storeVars, readerVars, procVars, sysVars, logVars>>
  /\ UNCHANGED <<auxVars, profVars, tlVars>>

(***************************************************************************)
(* Session life cycle: trace_init and trace_close on the UI thread         *)
(***************************************************************************)
\* trace_init(endpoint, ipaddress) up to the call of trace_close; tcp is
\* ipaddress != NULL
I_Call(tcps) ==
  /\ ui_pc = "idle"
  /\ \E tcp \in tcps : ui_tcp' = tcp
  /\ init_count' = init_count + 1
  /\ tracequeue_overflow' = 0
  /\ last_op' = "trace_init"
  /\ IF hThread # 0 /\ hUSBiface # 0
       THEN /\ init_result' = "OK"        \* double initialization
            /\ UNCHANGED <<ui_pc, ui_cont>>
       ELSE /\ init_result' = "pending"
            /\ ui_pc' = "close"
            /\ ui_cont' = "init"
  /\ UNCHANGED <<trace_queue, tracequeue_head, tracequeue_tail, lines_before>>
  /\ UNCHANGED <<itmVars, storeVars, readerVars, procVars, sysVars, logVars>>
  /\ UNCHANGED <<auxVars, profVars, tlVars>>

\* a call of trace_close from the application
C_Call ==
  /\ ui_pc = "idle"
  /\ ui_pc' = "close"
  /\ ui_cont' = "direct"
  /\ last_op' = "trace_close"
  /\ lines_before' = tracestrings
  /\ init_result' = "none"
  /\ UNCHANGED <<ui_tcp, init_count>>
  /\ UNCHANGED <<ringVars, itmVars, storeVars, readerVars, procVars, sysVars, logVars>>
  /\ UNCHANGED <<auxVars, profVars, tlVars>>

\* trace_close: if (hThread != 0) ...
\* POSIX: force_exit = 1, then wait; Windows: TerminateThread, hThread = NULL
C_Thread ==
  /\ ui_pc = "close"
  /\ IF hThread = 0
       THEN /\ ui_pc' = "close_usb"
            /\ UNCHANGED <<force_exit, hThread, reader_pc>>
       ELSE IF platform = "posix"
         THEN /\ force_exit' = 1
              /\ ui_pc' = "close_wait"
              /\ UNCHANGED <<hThread, reader_pc>>
         ELSE /\ reader_pc' = "exited"
              /\ hThread' = 0
              /\ ui_pc' = "close_usb"
              /\ UNCHANGED force_exit
  /\ UNCHANGED <<rd_buffer, rd_next, rd_slot, rd_tmp, rd_done>>
  /\ UNCHANGED <<platform, hUSBiface, TraceSocket, usb_open, sockets_open>>
  /\ UNCHANGED <<ringVars, itmVars, storeVars, procVars, lifeVars, logVars>>
  /\ UNCHANGED <<auxVars, profVars, tlVars>>

\* POSIX: while (force_exit) usleep(10*1000); hThread = 0;
\* the loop is left once the reader has cleared force_exit
C_Wait ==
  /\ ui_pc = "close_wait"
  /\ force_exit = 0
  /\ hThread' = 0
  /\ ui_pc' = "close_usb"
  /\ UNCHANGED <<platform, hUSBiface, TraceSocket, force_exit, usb_open, sockets_open>>
  /\ UNCHANGED <<ringVars, itmVars, storeVars, readerVars, procVars, lifeVars, logVars>>
  /\ UNCHANGED <<auxVars, profVars, tlVars>>

\* the release of the transport and the return of trace_close.
\* POSIX: libusb_close(hUSBiface); Windows: the USB handles and the socket
C_Release ==
  /\ ui_pc = "close_usb"
  /\ hUSBiface' = 0
  /\ usb_open' = IF hUSBiface # 0 THEN usb_open - 1 ELSE usb_open
  /\ IF platform = "win" /\ TraceSocket # INVALID_SOCKET
       THEN /\ TraceSocket' = INVALID_SOCKET
            /\ sockets_open' = sockets_open - 1
       ELSE UNCHANGED <<TraceSocket, sockets_open>>
  /\ ui_pc' = IF ui_cont = "init" THEN "init_open" ELSE "idle"
  /\ UNCHANGED <<platform, hThread, force_exit>>
  /\ UNCHANGED <<ringVars, itmVars, storeVars, readerVars, procVars, lifeVars, logVars>>
  /\ UNCHANGED <<auxVars, profVars, tlVars>>

\* what the acquisition of the transport can come to: the code returned
\* ("go": carry on to the thread), and whether a USB handle or a socket is
\* left open by it
OpenOutcomes(plat, tcp) ==
  IF tcp
    THEN {[result |-> "NO_INTERFACE", usb |-> 0, sock |-> 0],   \* socket() failed
          [result |-> "NO_PIPE", usb |-> 0, sock |-> 0],        \* connect() failed, socket closed
          [result |-> "go", usb |-> 0, sock |-> 1]}
    ELSE IF plat = "posix"
      THEN {[result |-> "NO_INTERFACE", usb |-> 0, sock |-> 0], \* find_bmp, or the claim failed
            [result |-> "INIT_FAILED", usb |-> 0, sock |-> 0],  \* libusb_init, device list
            [result |-> "NO_DEVPATH", usb |-> 0, sock |-> 0],
            [result |-> "NO_ACCESS", usb |-> 0, sock |-> 0],    \* libusb_open failed
            [result |-> "go", usb |-> 1, sock |-> 0]}
      ELSE {[result |-> "NO_INTERFACE", usb |-> 0, sock |-> 0], \* find_bmp
            [result |-> "NO_DEVPATH", usb |-> 0, sock |-> 0],   \* usb_GetDevicePath
            [result |-> "NO_ACCESS", usb |-> 0, sock |-> 0],    \* usb_OpenDevice
            [result |-> "NO_PIPE", usb |-> 1, sock |-> 0],      \* usb_ConfigEndpoint
            [result |-> "go", usb |-> 1, sock |-> 0]}

\* trace_init after trace_close: the socket, or the USB device
I_Open ==
  /\ ui_pc = "init_open"
  /\ \E o \in OpenOutcomes(platform, ui_tcp) :
       /\ hUSBiface' = IF ui_tcp THEN hUSBiface ELSE o.usb
       /\ usb_open' = usb_open + o.usb
       /\ TraceSocket' = IF ui_tcp THEN (IF o.sock = 1 THEN init_count ELSE INVALID_SOCKET)
                         ELSE TraceSocket
       /\ sockets_open' = sockets_open + o.sock
       /\ IF o.result = "go"
            THEN /\ ui_pc' = "init_thread"
                 /\ UNCHANGED init_result
            ELSE /\ ui_pc' = "idle"
                 /\ init_result' = o.result
  /\ UNCHANGED <<platform, hThread, force_exit>>
  /\ UNCHANGED <<ui_cont, ui_tcp, last_op, lines_before, init_count>>
  /\ UNCHANGED <<ringVars, itmVars, storeVars, readerVars, procVars, logVars>>
  /\ UNCHANGED <<auxVars, profVars, tlVars>>

\* POSIX: force_exit = 0; pthread_create(&hThread, NULL, trace_read, NULL);
\* Windows: hThread = CreateThread(NULL, 0, trace_read, NULL, 0, NULL);
I_Thread ==
  /\ ui_pc = "init_thread"
  /\ force_exit' = IF platform = "posix" THEN 0 ELSE force_exit
  /\ \E created \in BOOLEAN :
       IF created
         THEN /\ hThread' = 1
              /\ reader_pc' = "test"
              /\ init_result' = "OK"
         ELSE /\ init_result' = "NO_THREAD"
              /\ UNCHANGED <<hThread, reader_pc>>
  /\ ui_pc' = "idle"
  /\ UNCHANGED <<rd_buffer, rd_next, rd_slot, rd_tmp, rd_done>>
  /\ UNCHANGED <<platform, hUSBiface, TraceSocket, usb_open, sockets_open>>
  /\ UNCHANGED <<ui_cont, ui_tcp, last_op, lines_before, init_count>>
  /\ UNCHANGED <<ringVars, itmVars, storeVars, procVars, logVars>>
  /\ UNCHANGED <<auxVars, profVars, tlVars>>

(***************************************************************************)
(* Initial states                                                          *)
(***************************************************************************)
\* nothing was called yet
\* the statics of the timeline as the loader leaves them
InitMarks ==
  /\ timeline = [c \in 0..(NUM_CHANNELS - 1) |-> EmptyTimeline]
  /\ timeline_maxpos = 0 /\ timeline_maxcount = 1 /\ timeoffset = 0
  /\ skiplines = 0
  /\ mark_spacing = FltOf(100) /\ mark_scale = MARK_SECOND /\ mark_deltatime = 1
  /\ tracestring_tail_prev = 0
  /\ clicks = [count |-> 0, trail |-> <<>>]
  /\ rebuilds = [limit |-> 0, count |-> 0]

InitAux ==
  /\ InitMarks
  /\ adds = <<>>
  /\ sample_map = <<>> /\ overflow = 0 /\ ui_map = FALSE /\ overflow_count = 0
  /\ call0 = CallState
  /\ search = [op |-> "none", text |-> <<>>, curline |-> 0 - 1, timestamp |-> 0,
               returns |-> TRUE, line |-> 0 - 1, examined |-> <<>>]

\* the statics of the translation unit as the loader leaves them
InitStatics ==
  /\ trace_queue = [i \in 0..(PACKET_NUM - 1) |-> EmptyPacket]
  /\ tracequeue_head = 0 /\ tracequeue_tail = 0 /\ tracequeue_overflow = 0
  /\ itm_cache = [k \in 1..ITM_CACHESIZE |-> 0]
  /\ itm_cachefilled = 0 /\ itm_datasize = 1 /\ itm_datasz_auto = FALSE
  /\ itm_packet_errors = 0
  /\ tracestrings = <<>> /\ statusmessages = <<>>
  /\ rd_buffer = <<>> /\ rd_next = 0 /\ rd_slot = 0 /\ rd_tmp = 0 /\ rd_done = {}
  /\ ui_pc = "idle" /\ ui_enabled = TRUE /\ ui_count = 0
  /\ ui_cont = "none" /\ ui_tcp = FALSE /\ lines_before = <<>> /\ init_count = 0
  /\ force_exit = 0
  /\ clock = 0 /\ produced = <<>> /\ processed = <<>>
  /\ enq_count = 0 /\ deq_count = 0 /\ last_at = "none"
  /\ InitAux

\* no session: before the first trace_init
InitClosed ==
  /\ reader_pc = "none"
  /\ hThread = 0 /\ hUSBiface = 0 /\ TraceSocket = INVALID_SOCKET
  /\ usb_open = 0 /\ sockets_open = 0
  /\ init_result = "none" /\ last_op = "none"

\* a USB session: trace_init(endpoint, NULL) has returned TRACESTAT_OK
InitUsbSession ==
  /\ reader_pc = "test"
  /\ hThread = 1 /\ hUSBiface = 1 /\ TraceSocket = INVALID_SOCKET
  /\ usb_open = 1 /\ sockets_open = 0
  /\ init_result = "OK" /\ last_op = "trace_init"

(***************************************************************************)
(* Fill, then drain: the reader reads frames into the empty ring while the *)
(* decoder does not run; the decoder drains the ring afterwards            *)
(***************************************************************************)
\* the k-th frame of the ring specifications: one stimulus packet on
\* channel 1 whose payload byte is the sequence number of the frame
FrameData(k) == <<9, k % 256>>
\* the sequence number a frame carries
SeqNo(pkt) == IF Len(pkt.data) = 2 THEN pkt.data[2] ELSE 0
\* channel 1 is switched off in the ring specifications: its packets are
\* decoded and dropped by tracestring_add
RingChannels == [c \in 0..(NUM_CHANNELS - 1) |-> c # 1]

InitFill ==
  /\ InitStatics /\ InitUsbSession
  /\ platform \in {"posix", "win"}
  /\ channels = RingChannels

\* nothing was dequeued yet
FillPhase == ui_pc = "idle" /\ deq_count = 0

NextFill ==
  \/ FillPhase /\ R_Test
  \/ FillPhase /\ Len(produced) < MaxFill
               /\ R_XferData({FrameData(Len(produced) + 1)})
  \/ FillPhase /\ R_XferNone
  \/ FillPhase /\ R_Check
  \/ FillPhase /\ R_Copy({1})
  \/ FillPhase /\ R_Publish
  \/ FillPhase /\ R_OvfLoad
  \/ FillPhase /\ R_OvfStore
  \/ reader_pc = "xfer" /\ P_Call({TRUE})
  \/ P_Test
  \/ P_Frame
  \/ P_Advance
  \/ P_End

SpecFill == InitFill /\ [][NextFill]_vars

(***************************************************************************)
(* Reader and decoder running concurrently on a ring that is nearly full   *)
(***************************************************************************)
\* frames 1..RingPrefill were read and queued at times 1..RingPrefill and
\* none was dequeued yet
InitRing ==
  /\ trace_queue = [i \in 0..(PACKET_NUM - 1) |->
                      IF i < RingPrefill
                        THEN [data |-> FrameData(i + 1), length |-> 2,
                              timestamp |-> i + 1]
                        ELSE EmptyPacket]
  /\ tracequeue_head = 0 /\ tracequeue_tail = RingPrefill /\ tracequeue_overflow = 0
  /\ itm_cache = [k \in 1..ITM_CACHESIZE |-> 0]
  /\ itm_cachefilled = 0 /\ itm_datasize = 1 /\ itm_datasz_auto = FALSE
  /\ itm_packet_errors = 0
  /\ tracestrings = <<>> /\ statusmessages = <<>>
  /\ rd_buffer = <<>> /\ rd_next = 0 /\ rd_slot = 0 /\ rd_tmp = 0 /\ rd_done = {}
  /\ ui_pc = "idle" /\ ui_enabled = TRUE /\ ui_count = 0
  /\ ui_cont = "none" /\ ui_tcp = FALSE /\ lines_before = <<>> /\ init_count = 0
  /\ force_exit = 0
  /\ clock = RingPrefill
  /\ produced = [i \in 1..RingPrefill |->
                   [data |-> FrameData(i), length |-> 2, timestamp |-> i,
                    queued |-> TRUE]]
  /\ processed = <<>>
  /\ enq_count = RingPrefill /\ deq_count = 0 /\ last_at = "none"
  /\ InitAux
  /\ InitUsbSession
  /\ platform = "posix"
  /\ channels = RingChannels

\* a failed assertion ends the process, the reader thread with it
Alive == ui_pc # "abort"

NextRing ==
  \/ Alive /\ R_Test
  \/ Alive /\ Len(produced) < RingPrefill + MaxRing
           /\ R_XferData({FrameData(Len(produced) + 1)})
  \/ Alive /\ R_XferNone
  \/ Alive /\ R_Check
  \/ Alive /\ R_Copy({1})
  \/ Alive /\ R_Publish
  \/ Alive /\ R_OvfLoad
  \/ Alive /\ R_OvfStore
  \/ P_Call(BOOLEAN)
  \/ P_Test
  \/ P_Frame
  \/ P_Advance
  \/ P_End
  \/ trace_overflowerrors(BOOLEAN)
  \/ init_count = 0 /\ hThread # 0 /\ hUSBiface # 0 /\ I_Call({FALSE})

SpecRing == InitRing /\ [][NextRing]_vars

(***************************************************************************)
(* The text decoder fed with ITM streams cut into frames: the reader       *)
(* queues a frame, the decoder drains the ring, in turns                   *)
(***************************************************************************)
\* the bytes the streams are made of: an invalid header (or a NUL payload),
\* the headers of a 1-byte and of a 2-byte packet on channel 0, the header
\* of a PC sample packet, and 'A' (as a header: 1 byte on channel 8)
DecodeBytes == {0, 1, 2, 23, 65}

\* the frames of 1..n bytes
DecodeFrames(n) == UNION {[1..k -> DecodeBytes] : k \in 1..n}

\* the bytes of the frames read so far, in the order read
RECURSIVE Concat(_)
Concat(frames) ==
  IF frames = <<>> THEN <<>> ELSE Head(frames).data \o Concat(Tail(frames))
Stream == Concat(produced)

DecodeChannels == [c \in 0..(NUM_CHANNELS - 1) |-> TRUE]

InitDecode ==
  /\ InitStatics /\ InitUsbSession
  /\ platform = "posix"
  /\ channels = DecodeChannels

NextDecode ==
  \/ ui_pc = "idle" /\ R_Test
  \/ ui_pc = "idle" /\ Len(Stream) < MaxStream
                    /\ R_XferData(DecodeFrames(MaxStream - Len(Stream)))
  \/ ui_pc = "idle" /\ R_Check
  \/ ui_pc = "idle" /\ R_Copy({0})
  \/ ui_pc = "idle" /\ R_Publish
  \/ reader_pc = "xfer" /\ P_Call({TRUE})
  \/ P_Test
  \/ P_Frame
  \/ P_Advance
  \/ P_End
  \/ produced = <<>> /\ last_op # "trace_setdatasize" /\ trace_setdatasize({0, 1, 2, 4})

SpecDecode == InitDecode /\ [][NextDecode]_vars

(***************************************************************************)
(* Sessions: trace_init, trace_close and tracestring_process on the UI     *)
(* thread, the reader thread of the session beside them                    *)
(***************************************************************************)
\* the frames of the sessions: a complete packet 'A' on channel 0, and the
\* lone header of such a packet (it ends up in the carry cache)
LifeFrames == {<<1, 65>>, <<1>>}

InitLife ==
  /\ InitStatics /\ InitClosed
  /\ platform \in {"posix", "win"}
  /\ channels = DecodeChannels

\* the steps the reader thread takes by itself
ReaderStep ==
  \/ Alive /\ R_Test
  \/ Alive /\ R_Check
  \/ Alive /\ R_Copy({0})
  \/ Alive /\ R_Publish

\* what the transport read returns is up to the probe and the network
TransportStep ==
  \/ Alive /\ Len(produced) < MaxLife /\ R_XferData(LifeFrames)
  \/ Alive /\ R_XferNone
  \/ Alive /\ R_SockError

\* the calls the application makes
CallStep ==
  \/ init_count < MaxInit /\ I_Call(BOOLEAN)
  \/ C_Call
  \/ P_Call({TRUE})

\* the steps of a call in progress on the UI thread
UIStep ==
  \/ C_Thread
  \/ C_Wait
  \/ C_Release
  \/ I_Open
  \/ I_Thread
  \/ P_Test
  \/ P_Frame
  \/ P_Advance
  \/ P_End

NextLife == ReaderStep \/ TransportStep \/ CallStep \/ UIStep

SpecLife == InitLife /\ [][NextLife]_vars

\* both threads are scheduled: a step a thread can take by itself is taken
\* in the end; nothing obliges the transport to deliver or the application
\* to call
SpecLifeFair == SpecLife /\ WF_vars(ReaderStep) /\ WF_vars(UIStep)

(***************************************************************************)
(* Both decoders draining the ring while the reader fills it               *)
(***************************************************************************)
\* the frames read: a complete packet 'A' on channel 0 followed by the
\* header of the next, the lone header of such a packet (it only fills the
\* carry cache), an invalid header (the packet-error path of the text
\* decoder), a PC sample packet
ProcFrames == {<<1, 65, 1>>, <<1>>, <<0>>, <<23, 0, 16, 0, 32>>}

\* the statics before the first frame of the session; tracequeue_overflow
\* holds 0 or, after an earlier session that dropped a frame of PC samples
\* and was drained by tracestring_process(true), 1
InitProc ==
  /\ trace_queue = [i \in 0..(PACKET_NUM - 1) |-> EmptyPacket]
  /\ tracequeue_head = 0 /\ tracequeue_tail = 0 /\ tracequeue_overflow \in {0, 1}
  /\ itm_cache = [k \in 1..ITM_CACHESIZE |-> 0]
  /\ itm_cachefilled = 0 /\ itm_datasize = 1 /\ itm_datasz_auto = FALSE
  /\ itm_packet_errors = 0
  /\ tracestrings = <<>> /\ statusmessages = <<>>
  /\ rd_buffer = <<>> /\ rd_next = 0 /\ rd_slot = 0 /\ rd_tmp = 0 /\ rd_done = {}
  /\ ui_pc = "idle" /\ ui_enabled = TRUE /\ ui_count = 0
  /\ ui_cont = "none" /\ ui_tcp = FALSE /\ lines_before = <<>> /\ init_count = 0
  /\ force_exit = 0
  /\ clock = 0 /\ produced = <<>> /\ processed = <<>>
  /\ enq_count = 0 /\ deq_count = 0 /\ last_at = "none"
  /\ InitAux
  /\ InitUsbSession
  /\ platform = "posix"
  /\ channels = DecodeChannels

NextProc ==
  \/ Alive /\ R_Test
  \/ Alive /\ Len(produced) < MaxProc /\ R_XferData(ProcFrames)
  \/ Alive /\ R_Check
  \/ Alive /\ R_Copy({1})
  \/ Alive /\ R_Publish
  \/ P_Call(BOOLEAN)
  \/ P_Test
  \/ P_Frame
  \/ P_Advance
  \/ P_End
  \/ F_Call(BOOLEAN, BOOLEAN)
  \/ F_Test
  \/ F_Frame
  \/ F_Advance
  \/ F_End

SpecProc == InitProc /\ [][NextProc]_vars

(***************************************************************************)
(* The profile decoder fed with ITM streams cut into frames: the reader    *)
(* queues a frame, traceprofile_process drains the ring, in turns          *)
(***************************************************************************)
\* the frames read: a PC sample of the first instruction of the code range,
\* a PC sample of the second instruction cut in two frames, a PC sample
\* outside of the code range, an overflow packet, the lone header of a
\* stimulus packet, a stimulus packet followed by the header of a PC sample
ProfileFrames ==
  {<<23, 0, 16, 0, 32>>, <<23, 2, 16>>, <<0, 32>>, <<23, 0, 0, 0, 48>>,
   <<112>>, <<1>>, <<1, 65, 23>>}

InitProfile ==
  /\ InitStatics /\ InitUsbSession
  /\ platform = "posix"
  /\ channels = DecodeChannels

NextProfile ==
  \/ ui_pc = "idle" /\ R_Test
  \/ ui_pc = "idle" /\ Len(produced) < MaxProfile /\ R_XferData(ProfileFrames)
  \/ ui_pc = "idle" /\ R_Check
  \/ ui_pc = "idle" /\ R_Copy({0})
  \/ ui_pc = "idle" /\ R_Publish
  \/ reader_pc = "xfer" /\ F_Call({TRUE}, {TRUE})
  \/ F_Test
  \/ F_Frame
  \/ F_Advance
  \/ F_End

SpecProfile == InitProfile /\ [][NextProfile]_vars

(***************************************************************************)
(* The profile decoder fed with an ITM stream cut into frames at any       *)
(* place: the reader reads the bytes that follow, one or more at a time    *)
(***************************************************************************)
\* the streams: 70 17 00 10 00 20 70 (a PC sample of the first instruction
\* between two overflow packets); 00 17 70 17 70 17 00 10 (a packet with an
\* invalid header, whose 4 bytes look like headers, and the start of a PC
\* sample); 02 70 17 17 02 10 00 20 (a stimulus packet of 2 bytes that look
\* like headers and a PC sample of the second instruction)
SplitStreams ==
  {<<112, 23, 0, 16, 0, 32, 112>>, <<0, 23, 112, 23, 112, 23, 0, 16>>,
   <<2, 112, 23, 23, 2, 16, 0, 32>>}

\* the frames that can be read next: the bytes that follow in a stream
\* that begins with the bytes read so far
SplitChunks ==
  UNION {{SubSeq(S, Len(Stream) + 1, k) : k \in (Len(Stream) + 1)..Len(S)} :
           S \in {T \in SplitStreams :
                    Len(Stream) <= Len(T) /\ SubSeq(T, 1, Len(Stream)) = Stream}}

NextSplit ==
  \/ ui_pc = "idle" /\ R_Test
  \/ ui_pc = "idle" /\ R_XferData(SplitChunks)
  \/ ui_pc = "idle" /\ R_Check
  \/ ui_pc = "idle" /\ R_Copy({0})
  \/ ui_pc = "idle" /\ R_Publish
  \/ reader_pc = "xfer" /\ F_Call({TRUE}, {TRUE})
  \/ F_Test
  \/ F_Frame
  \/ F_Advance
  \/ F_End

SpecSplit == InitProfile /\ [][NextSplit]_vars

(***************************************************************************)
(* The trace store by itself: tracestring_add called with buffers of       *)
(* plain text on enabled and disabled channels, the clock advancing        *)
(***************************************************************************)
\* tracestring_add(channel, buffer, length, get_timestamp()), dt after the
\* call before
A_Add(chs, bufs, dts) ==
  /\ ui_pc = "idle"
  /\ \E ch \in chs, buf \in bufs, dt \in dts :
       /\ clock' = clock + dt
       /\ tracestrings' = tracestring_add(tracestrings, channels, ch, buf, clock + dt)
       /\ adds' = Append(adds, [channel |-> ch, buffer |-> buf, timestamp |-> clock + dt])
  /\ last_op' = "tracestring_add"
  /\ UNCHANGED <<channels, statusmessages, ui_pc, produced, processed, enq_count, deq_count,
                 last_at>>
  /\ UNCHANGED <<ui_cont, ui_tcp, init_result, lines_before, init_count>>
  /\ UNCHANGED <<ringVars, itmVars, readerVars, procVars, sysVars>>
  /\ UNCHANGED <<call0, search, profVars, tlVars>>

\* channels 0 and 1 are enabled, the others are not
StoreChannels == [c \in 0..(NUM_CHANNELS - 1) |-> c < 2]
\* the channels written to
StoreTargets == {0, 1, 2}
\* the buffers: "A", a lone LF, CR "A", "A" LF, "foo", "bar"
StoreBuffers == {<<65>>, <<LF>>, <<CR, 65>>, <<65, LF>>, <<102, 111, 111>>, <<98, 97, 114>>}
\* the time between two calls: 0.05 s, 0.2 s
StoreSteps == {50, 200}

InitStore ==
  /\ InitStatics /\ InitClosed
  /\ platform = "posix"
  /\ channels = StoreChannels

NextStore ==
  Len(adds) < MaxAdds /\ A_Add(StoreTargets, StoreBuffers, StoreSteps)

SpecStore == InitStore /\ [][NextStore]_vars

(***************************************************************************)
(* The trace store searched: lines added as above, tracestring_find and    *)
(* tracestring_findtimestamp called between the additions                  *)
(***************************************************************************)
\* tracestring_find(text, curline) called from the UI; a search that never
\* ends leaves the UI thread in the function
A_Find(texts) ==
  /\ ui_pc = "idle"
  /\ \E text \in texts, curline \in (0 - 1)..(Len(tracestrings) - 1) :
       LET r == tracestring_find(tracestrings, text, curline)
       IN  /\ search' = [op |-> "find", text |-> text, curline |-> curline,
                         timestamp |-> 0, returns |-> r.returns, line |-> r.line,
                         examined |-> r.examined]
           /\ ui_pc' = IF r.returns THEN "idle" ELSE "find"
  /\ last_op' = "tracestring_find"
  /\ UNCHANGED <<ui_cont, ui_tcp, init_result, lines_before, init_count>>
  /\ UNCHANGED <<ringVars, itmVars, storeVars, readerVars, procVars, sysVars, logVars>>
  /\ UNCHANGED <<adds, call0, profVars, tlVars>>

\* tracestring_findtimestamp(timestamp) called from the UI, with the
\* timestamp of a line or the time of the call
A_FindTimestamp ==
  /\ ui_pc = "idle"
  /\ \E ts \in {tracestrings[i].timestamp : i \in 1..Len(tracestrings)} \cup {clock + 1} :
       search' = [op |-> "findtimestamp", text |-> <<>>, curline |-> 0 - 1,
                  timestamp |-> ts, returns |-> TRUE,
                  line |-> tracestring_findtimestamp(tracestrings, ts),
                  examined |-> <<>>]
  /\ last_op' = "tracestring_findtimestamp"
  /\ UNCHANGED <<ui_pc, ui_cont, ui_tcp, init_result, lines_before, init_count>>
  /\ UNCHANGED <<ringVars, itmVars, storeVars, readerVars, procVars, sysVars, logVars>>
  /\ UNCHANGED <<adds, call0, profVars, tlVars>>

\* channels 0 and 1 are enabled
SearchTargets == {0, 1}
\* "foo" and "Bar"
SearchBuffers == {<<102, 111, 111>>, <<66, 97, 114>>}
\* "bar", "oo" and "z"
SearchTexts == {<<98, 97, 114>>, <<111, 111>>, <<122>>}
\* the clock between two calls: 200 ms later, or set back by 150 ms
\* (gettimeofday follows the adjustments of the system time)
SearchSteps == {200, 0 - 150}

NextSearch ==
  \/ Len(adds) < MaxSearch /\ A_Add(SearchTargets, SearchBuffers, SearchSteps)
  \/ A_Find(SearchTexts)
  \/ A_FindTimestamp

SpecSearch == InitStore /\ [][NextSearch]_vars

(***************************************************************************)
(* The timeline rebuilt over trace lists that grow: after a burst of lines *)
(* on channel 0, lines are added one by one, channel 1 is switched off and *)
(* on, the list is cleared                                                 *)
(***************************************************************************)
\* the mark configuration; the positions of the marks are computed with the
\* whole part of the spacing
MarkConfig == [spacing |-> mark_spacing, scale |-> mark_scale, delta |-> mark_deltatime]
RebuildConfig(cfg) == [cfg EXCEPT !.spacing = FltFloor(cfg.spacing)]

\* timeline_rebuild(limitlines) called from the UI
T_Rebuild(limits, allocations, builds) ==
  /\ ui_pc = "idle"
  /\ \E limitlines \in limits, allocs \in allocations, asserts \in builds :
       \E r \in {timeline_rebuild([timeline |-> timeline, skiplines |-> skiplines],
                                  tracestrings, channels,
                                  RebuildConfig(MarkConfig),
                                  limitlines, allocs, asserts)} :
           /\ timeline' = r.timeline
           /\ timeline_maxpos' = r.maxpos
           /\ timeline_maxcount' = r.maxcount
           /\ timeoffset' = r.timeoffset
           /\ skiplines' = r.skiplines
           /\ ui_pc' = IF r.at = "fault" THEN "abort" ELSE "idle"
           /\ rebuilds' = IF last_op = "timeline_rebuild" /\ rebuilds.limit = limitlines
                             THEN [rebuilds EXCEPT !.count = Min(rebuilds.count + 1, 3)]
                             ELSE [limit |-> limitlines, count |-> 1]
  /\ last_op' = "timeline_rebuild"
  /\ UNCHANGED <<mark_spacing, mark_scale, mark_deltatime, tracestring_tail_prev, clicks>>
  /\ UNCHANGED <<ui_cont, ui_tcp, init_result, lines_before, init_count>>
  /\ UNCHANGED <<ringVars, itmVars, storeVars, readerVars, procVars, sysVars, logVars>>
  /\ UNCHANGED <<auxVars, profVars>>

\* tracestring_clear()
A_Clear ==
  /\ ui_pc = "idle"
  /\ tracestrings' = <<>>
  /\ tracestring_tail_prev' = IF tracestring_tail_prev > 0 THEN 0 - 1 ELSE tracestring_tail_prev
  /\ last_op' = "tracestring_clear"
  /\ UNCHANGED <<channels, statusmessages, ui_pc, ui_cont, ui_tcp, init_result, lines_before,
                 init_count>>
  /\ UNCHANGED <<ringVars, itmVars, readerVars, procVars, sysVars, logVars>>
  /\ UNCHANGED <<auxVars, profVars>>
  /\ UNCHANGED <<timeline, timeline_maxpos, timeline_maxcount, timeoffset, skiplines,
                 mark_spacing, mark_scale, mark_deltatime, clicks, rebuilds>>

\* channel_setenabled(index, enabled)
A_SetEnabled(indices, flags) ==
  /\ ui_pc = "idle"
  /\ \E index \in indices, enabled \in flags :
       channels' = [channels EXCEPT ![index] = enabled]
  /\ last_op' = "channel_setenabled"
  /\ UNCHANGED <<tracestrings, statusmessages, ui_pc, ui_cont, ui_tcp, init_result,
                 lines_before, init_count>>
  /\ UNCHANGED <<ringVars, itmVars, readerVars, procVars, sysVars, logVars>>
  /\ UNCHANGED <<auxVars, profVars, tlVars>>

\* the list after n calls tracestring_add(0, "A\n", 2, t) at 200 ms from
\* each other, the first at 200 ms
BurstLine(k) ==
  Seal(NewItem(IF k = 1 THEN <<>> ELSE <<[timestamp |-> 200]>>, 0, 65, 200 * k))
Burst(n) == [k \in 1..n |-> BurstLine(k)]

\* the lines in the list at the start: none, or one more than the first
\* allocation of a timeline holds
TimelineStarts == {0, 33}
\* the clock between two calls: 2 ms or 200 ms later, or set back by 150 ms
TimelineSteps == {2, 200, 0 - 150}
\* "A" and a newline: the line is sealed at once
TimelineBuffers == {<<65, LF>>}
\* no limit (and the skipped lines forgotten), at most 2 marks
TimelineLimits == {0 - 1, 2}
\* the allocations of a call that succeed: the first, all
TimelineAllocs == {1, 9}

\* the statics after the burst: no session was opened, the lines were
\* added by the calls of Burst
InitTimeline ==
  /\ trace_queue = [i \in 0..(PACKET_NUM - 1) |-> EmptyPacket]
  /\ tracequeue_head = 0 /\ tracequeue_tail = 0 /\ tracequeue_overflow = 0
  /\ itm_cache = [k \in 1..ITM_CACHESIZE |-> 0]
  /\ itm_cachefilled = 0 /\ itm_datasize = 1 /\ itm_datasz_auto = FALSE
  /\ itm_packet_errors = 0
  /\ \E n \in TimelineStarts : tracestrings = Burst(n) /\ clock = 200 * n
  /\ statusmessages = <<>>
  /\ rd_buffer = <<>> /\ rd_next = 0 /\ rd_slot = 0 /\ rd_tmp = 0 /\ rd_done = {}
  /\ ui_pc = "idle" /\ ui_enabled = TRUE /\ ui_count = 0
  /\ ui_cont = "none" /\ ui_tcp = FALSE /\ lines_before = <<>> /\ init_count = 0
  /\ force_exit = 0
  /\ produced = <<>> /\ processed = <<>>
  /\ enq_count = 0 /\ deq_count = 0 /\ last_at = "none"
  /\ InitAux
  /\ InitClosed
  /\ platform = "posix"
  /\ channels = StoreChannels

NextTimeline ==
  \/ Len(adds) < MaxTimeline /\ A_Add({0, 1}, TimelineBuffers, TimelineSteps)
  \/ T_Rebuild(TimelineLimits, TimelineAllocs, BOOLEAN)
  \/ A_SetEnabled({1}, BOOLEAN)
  \/ A_Clear

SpecTimeline == InitTimeline /\ [][NextTimeline]_vars

(***************************************************************************)
(* The text decoder on frames of stimulus packets of 1, 2 and 4 bytes,     *)
(* with invalid headers, cut packets and PC samples among them; the data   *)
(* size is set before the first frame                                      *)
(***************************************************************************)
\* the frames decoded
MaxText == 2
\* 03 DE AD BE EF; 01 41 00; 03; 17 00 10; 09 42 01 41 00; 02 41 42
TextFrames ==
  {<<3, 222, 173, 190, 239>>, <<1, 65, 0>>, <<3>>, <<23, 0, 16>>,
   <<9, 66, 1, 65, 0>>, <<2, 65, 66>>}

NextText ==
  \/ ui_pc = "idle" /\ R_Test
  \/ ui_pc = "idle" /\ Len(produced) < MaxText /\ R_XferData(TextFrames)
  \/ ui_pc = "idle" /\ R_Check
  \/ ui_pc = "idle" /\ R_Copy({0})
  \/ ui_pc = "idle" /\ R_Publish
  \/ reader_pc = "xfer" /\ P_Call({TRUE})
  \/ P_Test
  \/ P_Frame
  \/ P_Advance
  \/ P_End
  \/ produced = <<>> /\ last_op # "trace_setdatasize" /\ trace_setdatasize({0, 1, 2})

SpecText == InitDecode /\ [][NextText]_vars

(***************************************************************************)
(* Text of two channels: frames of whole stimulus packets of 1 and 2       *)
(* bytes on the channels 0 and 1, the channel changing between and inside  *)
(* frames, with CR and LF among the payload, read 10 ms or 0.2 s apart     *)
(***************************************************************************)
\* the frames decoded
MaxPayload == 2
\* 01 48 01 69 01 0A; 01 48; 01 69 01 0A; 09 42 01 48 09 43; 02 43 0D;
\* 0A 44 45
PayloadFrames ==
  {<<1, 72, 1, 105, 1, 10>>, <<1, 72>>, <<1, 105, 1, 10>>, <<9, 66, 1, 72, 9, 67>>,
   <<2, 67, 13>>, <<10, 68, 69>>}

NextPayload ==
  \/ ui_pc = "idle" /\ R_Test
  \/ ui_pc = "idle" /\ Len(produced) < MaxPayload /\ R_XferData(PayloadFrames)
  \/ ui_pc = "idle" /\ R_Check
  \/ ui_pc = "idle" /\ R_Copy({10, 200})
  \/ ui_pc = "idle" /\ R_Publish
  \/ reader_pc = "xfer" /\ P_Call({TRUE})
  \/ P_Test
  \/ P_Frame
  \/ P_Advance
  \/ P_End
  \/ produced = <<>> /\ last_op # "trace_setdatasize" /\ trace_setdatasize({0, 1, 2})

SpecPayload == InitDecode /\ [][NextPayload]_vars

(***************************************************************************)
(* Long lines: tracestring_add called with buffers of up to LineChunk      *)
(* bytes on a list whose tail is about to reach a size of its text buffer  *)
(* or the length limit, and tracestring_clear                              *)
(***************************************************************************)
\* n bytes "A"
Fill(n) == [k \in 1..n |-> 65]

\* the bytes of the longest buffer passed (half a frame)
LineChunk == 32

\* the list after n bytes "A" arrived on channel 0 at time 0, in buffers of
\* at most LineChunk bytes
RECURSIVE Typed(_, _)
Typed(lines, n) ==
  IF n = 0 THEN lines
  ELSE Typed(AddLoop(lines, 0, Fill(Min(n, LineChunk)), 1, 0), n - Min(n, LineChunk))

\* calls of tracestring_add
MaxLine == 3
\* the bytes in the list at the start
LineStarts == {0, 31, 127, 254}
\* the buffers: half a frame of "A", "AA", a lone LF, "B" LF "C"
LineBuffers == {Fill(LineChunk), Fill(2), <<LF>>, <<66, LF, 67>>}
\* the time between two calls: none, 0.2 s
LineSteps == {0, 200}

InitLine ==
  /\ trace_queue = [i \in 0..(PACKET_NUM - 1) |-> EmptyPacket]
  /\ tracequeue_head = 0 /\ tracequeue_tail = 0 /\ tracequeue_overflow = 0
  /\ itm_cache = [k \in 1..ITM_CACHESIZE |-> 0]
  /\ itm_cachefilled = 0 /\ itm_datasize = 1 /\ itm_datasz_auto = FALSE
  /\ itm_packet_errors = 0
  /\ \E n \in LineStarts : tracestrings = Typed(<<>>, n)
  /\ statusmessages = <<>>
  /\ rd_buffer = <<>> /\ rd_next = 0 /\ rd_slot = 0 /\ rd_tmp = 0 /\ rd_done = {}
  /\ ui_pc = "idle" /\ ui_enabled = FALSE /\ ui_count = 0
  /\ ui_cont = "none" /\ ui_tcp = FALSE /\ lines_before = <<>> /\ init_count = 0
  /\ force_exit = 0
  /\ clock = 0 /\ produced = <<>> /\ processed = <<>>
  /\ enq_count = 0 /\ deq_count = 0 /\ last_at = "none"
  /\ InitAux
  /\ InitClosed
  /\ platform = "posix"
  /\ channels = StoreChannels

NextLine ==
  \/ Len(adds) < MaxLine /\ A_Add({0, 1}, LineBuffers, LineSteps)
  \/ A_Clear

SpecLine == InitLine /\ [][NextLine]_vars

(***************************************************************************)
(* Channels with a stream: tracestring_add called for channels in CTF      *)
(* mode and for channels of plain text, the stream decoder producing       *)
(* messages, nothing, or an error; the timeline is rebuilt in between      *)
(***************************************************************************)
\* tracestring_add(channel, buffer, length, get_timestamp()) for a channel
\* for which stream_isactive(channel) holds, dt after the call before
A_AddStream(chs, bufs, dts, outcomes) ==
  /\ ui_pc = "idle"
  /\ \E ch \in chs, buf \in bufs, dt \in dts, outcome \in outcomes :
       \E r \in {StreamAdd(tracestrings, statusmessages, channels, ch, clock + dt, outcome)} :
         /\ clock' = clock + dt
         /\ tracestrings' = r.lines
         /\ statusmessages' = r.log
         /\ adds' = Append(adds, [channel |-> ch, buffer |-> buf, timestamp |-> clock + dt,
                                  decoded |-> outcome.count])
  /\ last_op' = "tracestring_add"
  /\ UNCHANGED <<channels, ui_pc, produced, processed, enq_count, deq_count, last_at>>
  /\ UNCHANGED <<ui_cont, ui_tcp, init_result, lines_before, init_count>>
  /\ UNCHANGED <<ringVars, itmVars, readerVars, procVars, sysVars>>
  /\ UNCHANGED <<call0, search, profVars, tlVars>>

\* calls of tracestring_add
MaxCtf == 3
\* what ctf_decode makes of a buffer: an error after one message was put
\* on the stack, nothing yet, the message
\* "Hi" of stream 0 without a time of the remote host, two messages of
\* stream 1 with the remote times 5 s and 3 s
StreamOutcomes ==
  {[count |-> 0 - 1, text |-> "error",
    messages |-> <<[streamid |-> 1, tstamp |-> 0, text |-> <<88>>]>>],
   [count |-> 0, text |-> "", messages |-> <<>>],
   [count |-> 1, text |-> "",
    messages |-> <<[streamid |-> 0, tstamp |-> 0, text |-> <<72, 105>>]>>],
   [count |-> 2, text |-> "",
    messages |-> <<[streamid |-> 1, tstamp |-> 5000, text |-> <<65>>],
                   [streamid |-> 1, tstamp |-> 3000, text |-> <<66>>]>>]}

\* the carry cache holds a header and the data size was set to 2 before
\* the calls
InitStream ==
  /\ trace_queue = [i \in 0..(PACKET_NUM - 1) |-> EmptyPacket]
  /\ tracequeue_head = 0 /\ tracequeue_tail = 0 /\ tracequeue_overflow = 0
  /\ itm_cache = [k \in 1..ITM_CACHESIZE |-> IF k = 1 THEN 3 ELSE 0]
  /\ itm_cachefilled = 1 /\ itm_datasize = 2 /\ itm_datasz_auto = FALSE
  /\ itm_packet_errors = 1
  /\ tracestrings = <<>> /\ statusmessages = <<>>
  /\ rd_buffer = <<>> /\ rd_next = 0 /\ rd_slot = 0 /\ rd_tmp = 0 /\ rd_done = {}
  /\ ui_pc = "idle" /\ ui_enabled = TRUE /\ ui_count = 0
  /\ ui_cont = "none" /\ ui_tcp = FALSE /\ lines_before = <<>> /\ init_count = 0
  /\ force_exit = 0
  /\ clock = 0 /\ produced = <<>> /\ processed = <<>>
  /\ enq_count = 0 /\ deq_count = 0 /\ last_at = "none"
  /\ InitAux
  /\ InitClosed
  /\ platform = "posix"
  /\ channels = StoreChannels

NextStream ==
  \/ Len(adds) < MaxCtf /\ A_AddStream({1, 2}, {<<1, 2>>}, {2}, StreamOutcomes)
  \/ Len(adds) < MaxCtf /\ A_Add({0}, {<<65>>, <<LF>>}, {2})
  \/ A_Clear
  \/ last_op = "tracestring_add" /\ T_Rebuild({0 - 1}, {9}, {TRUE})

SpecStream == InitStream /\ [][NextStream]_vars

(***************************************************************************)
(* The carry cache under both decoders: frames that end inside a packet,   *)
(* each call draining the ring with tracestring_process or with            *)
(* traceprofile_process                                                    *)
(***************************************************************************)
\* the frames decoded
MaxCarry == 3
\* a 4-byte packet cut after 2 bytes, a PC sample cut after 3 bytes, an
\* unknown header and a byte, two bytes of payload, a lone header, a packet
\* and the header of a PC sample
CarryFrames ==
  {<<3, 65, 66>>, <<23, 0, 16, 0>>, <<0, 1>>, <<67, 68>>, <<1>>, <<1, 65, 23>>}

NextCarry ==
  \/ ui_pc = "idle" /\ R_Test
  \/ ui_pc = "idle" /\ Len(produced) < MaxCarry /\ R_XferData(CarryFrames)
  \/ ui_pc = "idle" /\ R_Check
  \/ ui_pc = "idle" /\ R_Copy({0})
  \/ ui_pc = "idle" /\ R_Publish
  \/ reader_pc = "xfer" /\ P_Call({TRUE})
  \/ P_Test
  \/ P_Frame
  \/ P_Advance
  \/ P_End
  \/ reader_pc = "xfer" /\ F_Call({TRUE}, {TRUE})
  \/ F_Test
  \/ F_Frame
  \/ F_Advance
  \/ F_End
  \/ produced = <<>> /\ last_op # "trace_setdatasize" /\ trace_setdatasize({0, 1})

SpecCarry == InitDecode /\ [][NextCarry]_vars

(***************************************************************************)
(* The widget: frames of timeline_widget with clicks on "+" and "-",       *)
(* over a list of two lines                                                *)
(***************************************************************************)
\* tracestring_tail != tracestring_tail_prev: a pointer to a freed line
\* compares either way with the tail of a list filled anew
TailChanged ==
  IF tracestring_tail_prev = 0 - 1 /\ tracestrings # <<>>
    THEN BOOLEAN
    ELSE {Len(tracestrings) # tracestring_tail_prev}

\* the statics timeline_rebuild works on
MarkState ==
  [timeline |-> timeline, maxpos |-> timeline_maxpos, maxcount |-> timeline_maxcount,
   timeoffset |-> timeoffset, skiplines |-> skiplines, at |-> "end"]

\* the last two clicks
Trail(trail, click) ==
  LET t == Append(trail, [click |-> click, cfg |-> MarkConfig])
  IN  IF Len(t) > 2 THEN Tail(t) ELSE t

\* timeline_widget(ctx, id, rowheight, limitlines, widget_flags): one frame.
\* click is the button the mouse hits; draw tells whether the group is
\* drawn and whether its first row has room for ticks ("hidden", "narrow",
\* "ticks"); traps tells whether the build stops on the division by
\* mark_inv_scale = 0 or on the unit that was never set
W_Widget(hits, draws, limits, allocations, builds) ==
  /\ ui_pc = "idle"
  /\ \E click \in hits, draw \in draws, limitlines \in limits, allocs \in allocations,
        asserts \in builds, traps \in BOOLEAN, changed \in TailChanged :
       \E r1 \in {IF changed
                    THEN timeline_rebuild(MarkState, tracestrings, channels,
                                          RebuildConfig(MarkConfig), limitlines, allocs, asserts)
                    ELSE MarkState} :
         LET \* default: assert(0) of the switch on mark_scale
             nounit == draw # "hidden" /\ asserts /\ mark_scale \notin MarkUnits
             \* mark_stamp % mark_inv_scale with MARK_SECOND / mark_scale = 0,
             \* "%s" of a unit that was not set
             hazard == draw = "ticks" /\ traps
                       /\ (mark_scale > MARK_SECOND \/ mark_scale \notin MarkUnits)
             stopped == r1.at = "fault" \/ nounit \/ hazard
             pressed == ~stopped /\ draw # "hidden" /\ click # "none"
             cfg1 == IF ~pressed THEN MarkConfig
                     ELSE IF click = "plus" THEN ZoomIn(MarkConfig) ELSE ZoomOut(MarkConfig)
         IN  \E r2 \in {IF pressed
                          THEN timeline_rebuild(r1, tracestrings, channels,
                                                RebuildConfig(cfg1), limitlines, allocs, asserts)
                          ELSE r1} :
               /\ timeline' = r2.timeline
               /\ timeline_maxpos' = r2.maxpos
               /\ timeline_maxcount' = r2.maxcount
               /\ timeoffset' = r2.timeoffset
               /\ skiplines' = r2.skiplines
               /\ tracestring_tail_prev' = IF changed /\ r1.at # "fault"
                                             THEN Len(tracestrings)
                                             ELSE tracestring_tail_prev
               /\ mark_spacing' = cfg1.spacing
               /\ mark_scale' = cfg1.scale
               /\ mark_deltatime' = cfg1.delta
               /\ clicks' = IF pressed
                              THEN [count |-> clicks.count + 1, trail |-> Trail(clicks.trail, click)]
                              ELSE clicks
               /\ ui_pc' = IF stopped \/ r2.at = "fault" THEN "abort" ELSE "idle"
  /\ last_op' = "timeline_widget"
  /\ UNCHANGED rebuilds
  /\ UNCHANGED <<ui_cont, ui_tcp, init_result, lines_before, init_count>>
  /\ UNCHANGED <<ringVars, itmVars, storeVars, readerVars, procVars, sysVars, logVars>>
  /\ UNCHANGED <<auxVars, profVars>>

\* timeline_setconfig(spacing, scale, delta) called from the UI
T_SetConfig(spacings, scales, deltas) ==
  /\ ui_pc = "idle"
  /\ \E spacing \in spacings, scale \in scales, delta \in deltas :
       \E cfg \in {timeline_setconfig(MarkConfig, spacing, scale, delta)} :
         /\ mark_spacing' = cfg.spacing
         /\ mark_scale' = cfg.scale
         /\ mark_deltatime' = cfg.delta
  /\ clicks' = [clicks EXCEPT !.trail = <<>>]
  /\ last_op' = "timeline_setconfig"
  /\ UNCHANGED <<timeline, timeline_maxpos, timeline_maxcount, timeoffset, skiplines,
                 tracestring_tail_prev, rebuilds>>
  /\ UNCHANGED <<ui_pc, ui_cont, ui_tcp, init_result, lines_before, init_count>>
  /\ UNCHANGED <<ringVars, itmVars, storeVars, readerVars, procVars, sysVars, logVars>>
  /\ UNCHANGED <<auxVars, profVars>>

\* the list after tracestring_add(0, "A\n", 2, 200) and
\* tracestring_add(1, "B\n", 2, 202)
ZoomLines ==
  tracestring_add(tracestring_add(<<>>, StoreChannels, 0, <<65, LF>>, 200),
                  StoreChannels, 1, <<66, LF>>, 202)

\* the clicks on "+" and "-" from the initial configuration
MaxZoom == 13
\* no limit, at most 1 mark
ZoomLimits == {0 - 1, 1}
\* the allocations of a call that succeed: the first, all
ZoomAllocs == {1, 9}
ZoomDraws == {"hidden", "narrow", "ticks"}

\* the statics after the two calls of ZoomLines: no session was opened
InitZoom ==
  /\ trace_queue = [i \in 0..(PACKET_NUM - 1) |-> EmptyPacket]
  /\ tracequeue_head = 0 /\ tracequeue_tail = 0 /\ tracequeue_overflow = 0
  /\ itm_cache = [k \in 1..ITM_CACHESIZE |-> 0]
  /\ itm_cachefilled = 0 /\ itm_datasize = 1 /\ itm_datasz_auto = FALSE
  /\ itm_packet_errors = 0
  /\ tracestrings = ZoomLines /\ clock = 202
  /\ statusmessages = <<>>
  /\ rd_buffer = <<>> /\ rd_next = 0 /\ rd_slot = 0 /\ rd_tmp = 0 /\ rd_done = {}
  /\ ui_pc = "idle" /\ ui_enabled = TRUE /\ ui_count = 0
  /\ ui_cont = "none" /\ ui_tcp = FALSE /\ lines_before = <<>> /\ init_count = 0
  /\ force_exit = 0
  /\ produced = <<>> /\ processed = <<>>
  /\ enq_count = 0 /\ deq_count = 0 /\ last_at = "none"
  /\ InitAux
  /\ InitClosed
  /\ platform = "posix"
  /\ channels = StoreChannels

NextZoom ==
  \/ clicks.count < MaxZoom /\ W_Widget({"plus", "minus"}, {"narrow", "ticks"},
                                        ZoomLimits, ZoomAllocs, BOOLEAN)
  \/ W_Widget({"none"}, ZoomDraws, ZoomLimits, ZoomAllocs, BOOLEAN)

SpecZoom == InitZoom /\ [][NextZoom]_vars

(***************************************************************************)
(* The widget after timeline_setconfig: configurations that are accepted   *)
(* and refused before the first frame of the widget, then clicks on "+"    *)
(* and "-", the list cleared and filled anew                               *)
(***************************************************************************)
\* the clicks on "+" and "-"
MaxRound == 2
\* the spacings passed: 10, 11, 100, 500
ConfigSpacings == {FltOf(10), FltOf(11), FltOf(100), FltOf(500)}
ConfigScales == {0, 1, 1000, MARK_SECOND, 60 * MARK_SECOND}
ConfigDeltas == {0, 1, 25, 100, 101}

NextConfig ==
  \/ tracestring_tail_prev = 0 /\ clicks.count = 0
     /\ T_SetConfig(ConfigSpacings, ConfigScales, ConfigDeltas)
  \/ clicks.count < MaxRound /\ W_Widget({"plus", "minus"}, {"narrow", "ticks"},
                                         ZoomLimits, ZoomAllocs, BOOLEAN)
  \/ W_Widget({"none"}, ZoomDraws, ZoomLimits, ZoomAllocs, BOOLEAN)
  \/ A_Clear
  \/ Len(adds) < 1 /\ A_Add({0}, TimelineBuffers, {2})

SpecConfig == InitZoom /\ [][NextConfig]_vars

(***************************************************************************)
(* timeline_setconfig called at any moment with scales that are units and  *)
(* scales that are not, the widget drawing the timeline between the calls  *)
(***************************************************************************)
\* the spacings passed: 10, 500
UnitSpacings == {FltOf(10), FltOf(500)}
\* the scales passed: none, half a millisecond, a millisecond, two seconds
UnitScales == {0, 500, 1000, 2 * MARK_SECOND}
\* the deltas passed
UnitDeltas == {0, 25, 101}

NextUnit ==
  \/ T_SetConfig(UnitSpacings, UnitScales, UnitDeltas)
  \/ W_Widget({"none"}, ZoomDraws, ZoomLimits, ZoomAllocs, BOOLEAN)
  \/ A_Clear
  \/ Len(adds) < 1 /\ A_Add({0}, TimelineBuffers, {2})

SpecUnit == InitZoom /\ [][NextUnit]_vars

\* the frame the reader read as k-th, as it stands in the ring
PacketOf(p) == [data |-> p.data, length |-> p.length, timestamp |-> p.timestamp]
\* the first n frames read, as the decoder has to see them
FirstRead(n) == [i \in 1..n |-> PacketOf(produced[i])]
\* the decoder has drained the ring while the reader waits for the next frame
Drained ==
  /\ ui_pc = "idle" /\ last_op = "tracestring_process"
  /\ reader_pc = "xfer"
  /\ tracequeue_head = tracequeue_tail

\* C1 as stated: n <= 128 frames read into the empty ring without a dequeue
\* are all seen by the draining decoder, in order.
C1_FifoUpTo128 ==
  (Drained /\ Len(produced) <= PACKET_NUM) => processed = FirstRead(Len(produced))

\* C1, amended: n <= 127 frames (PACKET_NUM - 1, one slot stays free) read
\* into the empty ring without a dequeue are all seen by the draining
\* decoder, exactly once and in the order read.
C1_FifoUpTo127 ==
  (Drained /\ Len(produced) <= PACKET_NUM - 1) => processed = FirstRead(Len(produced))

\* C1 witness: 127 frames were read and the drain returned all of them
C1_Witness ==
  /\ Drained /\ Len(produced) = PACKET_NUM - 1
  /\ processed = FirstRead(PACKET_NUM - 1)

\* slots 0..n-1 hold the first n frames read, unmodified, and tail is n
QueueIsPrefix(n) ==
  /\ tracequeue_tail = n
  /\ \A i \in 1..n : Observed(trace_queue[i - 1]) = PacketOf(produced[i])

\* frames whose handling by the reader is complete
Handled ==
  IF reader_pc \in {"test", "xfer"} THEN Len(produced) ELSE Len(produced) - 1

\* C2: with a decoder that never dequeues, after N frames the ring holds the
\* first min(N, 127) frames read, unmodified, and overflow_count is
\* max(0, N - 127); while a frame that met the full ring is being handled,
\* tail and the queued slots are as before it arrived.
C2_DropNewest ==
  (deq_count = 0 /\ reader_pc # "enq") =>
     /\ QueueIsPrefix(Min(Handled, PACKET_NUM - 1))
     /\ reader_pc # "ovf_store" =>
          tracequeue_overflow = Max(0, Handled - (PACKET_NUM - 1))
     /\ reader_pc \in {"ovf_load", "ovf_store"} => Handled >= PACKET_NUM - 1

\* C2 witness: 200 frames read, 127 queued, 73 counted as overflow
C2_Witness ==
  /\ deq_count = 0 /\ reader_pc = "xfer"
  /\ Len(produced) = 200
  /\ Queued(tracequeue_head, tracequeue_tail) = 127
  /\ tracequeue_overflow = 73

\* C3: under every interleaving of the reader and the decoder, each frame
\* the decoder processes is a frame the reader queued, with exactly the
\* bytes, length and timestamp queued for it, and the frames are processed
\* in the order read, none twice.
C3_OrderedExact ==
  \A i \in 1..Len(processed) :
     LET k == SeqNo(processed[i])
     IN  /\ k \in 1..Len(produced)
         /\ produced[k].queued
         /\ processed[i] = PacketOf(produced[k])
         /\ i > 1 => SeqNo(processed[i - 1]) < k

\* C6: while a reader thread runs, overflow_count changes only by the
\* reader's own increment, and that increment adds one to the value the
\* counter holds at the store (no increment and no reset is lost).
C6_SingleWriter ==
  [][ReaderRunning /\ tracequeue_overflow' # tracequeue_overflow
       => /\ reader_pc = "ovf_store" /\ reader_pc' = "test"
          /\ tracequeue_overflow' = tracequeue_overflow + 1]_vars

\* the cursors are slot indices, the frames published and not yet dequeued
\* are the (tail - head) mod 128 frames between them, at most 127, and none
\* exactly when head = tail
RingInv ==
  /\ tracequeue_head \in 0..(PACKET_NUM - 1)
  /\ tracequeue_tail \in 0..(PACKET_NUM - 1)
  /\ enq_count - deq_count = (tracequeue_tail - tracequeue_head + 128) % 128
  /\ enq_count - deq_count <= 127
  /\ (enq_count = deq_count) <=> (tracequeue_head = tracequeue_tail)

\* the reader's test of a frame it has read: accepted (about to be queued)
\* exactly when (tail + 1) mod 128 # head, else counted as overflow
AcceptRule ==
  (reader_pc = "check" /\ reader_pc' # "check") =>
     /\ reader_pc' \in {"enq", "ovf_load"}
     /\ (reader_pc' = "enq") <=> ((tracequeue_tail + 1) % 128 # tracequeue_head)

\* C7: the ring invariant holds in every reachable state and every enqueue
\* is accepted exactly when (tail + 1) mod 128 # head.
C7_RingInvariant == []RingInv /\ [][AcceptRule]_vars

\* C7 witness: the cursors have wrapped (tail behind head), 127 frames are
\* queued and the reader is counting a frame it could not queue
C7_Witness ==
  /\ tracequeue_tail < tracequeue_head
  /\ Queued(tracequeue_head, tracequeue_tail) = PACKET_NUM - 1
  /\ enq_count - deq_count = PACKET_NUM - 1
  /\ reader_pc = "ovf_store"

\* S from position pos on is made of well-formed packets (stimulus packets
\* within the data size, 5-byte PC sample packets), the last one possibly
\* cut short by the end of the stream
RECURSIVE StreamOK(_, _, _, _)
StreamOK(S, pos, datasize, auto) ==
  IF pos > Len(S) THEN TRUE
  ELSE IF S[pos] = 23 THEN StreamOK(S, pos + 5, datasize, auto)
  ELSE IF ~ITM_VALIDHDR(S[pos]) THEN FALSE
  ELSE IF ITM_LENGTH(S[pos]) > datasize /\ ~auto THEN FALSE
  ELSE StreamOK(S, pos + 1 + ITM_LENGTH(S[pos]), datasize, auto)

\* the data size the decoder started the stream with
StartSize == IF itm_datasz_auto THEN 1 ELSE itm_datasize

\* the stream decoded undivided, as one frame, by a decoder in its initial
\* state
Undivided ==
  TextFrame([cache |-> [k \in 1..ITM_CACHESIZE |-> 0], cachefilled |-> 0,
             datasize |-> StartSize, auto |-> itm_datasz_auto, errors |-> 0,
             lines |-> <<>>],
            [data |-> Stream, length |-> Len(Stream), timestamp |-> 0],
            channels)

\* what C4 compares of a trace line
LineView(lines) ==
  [i \in 1..Len(lines) |->
     [channel |-> lines[i].channel, text |-> lines[i].text,
      sealed |-> lines[i].flags % 2 = 1]]

\* every frame read has been decoded
DecodedAll ==
  /\ ui_pc = "idle" /\ last_op = "tracestring_process"
  /\ reader_pc = "xfer"
  /\ tracequeue_head = tracequeue_tail
  /\ produced # <<>> /\ Len(processed) = Len(produced)

\* C4: once all frames of a stream of well-formed packets are decoded in
\* text mode, the trace lines (channel, text, sealed flag) and packet_errors
\* are those of decoding the stream undivided, however the stream was cut
\* into frames.
C4_SplitEquivalence ==
  (DecodedAll /\ StreamOK(Stream, 1, StartSize, itm_datasz_auto)) =>
     /\ LineView(tracestrings) = LineView(Undivided.lines)
     /\ itm_packet_errors = Undivided.errors

\* the frame holds only complete stimulus packets within the data size
RECURSIVE FrameOK(_, _, _)
FrameOK(data, pos, datasize) ==
  IF pos > Len(data) THEN pos = Len(data) + 1
  ELSE /\ ITM_VALIDHDR(data[pos])
       /\ ITM_LENGTH(data[pos]) <= datasize
       /\ FrameOK(data, pos + 1 + ITM_LENGTH(data[pos]), datasize)

\* the frame at the head of the ring decoded afresh: by a decoder whose
\* carry cache is empty
DecodedAfresh ==
  TextFrame([DecoderState EXCEPT !.cachefilled = 0],
            trace_queue[tracequeue_head], channels)

\* C5: the frame decoded next after a frame that raised a packet error, if
\* it holds only well-formed stimulus packets within data_word_size, is
\* decoded afresh and completely and adds no packet error.
C5_ErrorConfined ==
  [][(/\ ui_pc = "proc_frame" /\ ui_pc' # "proc_frame" /\ ui_enabled
      /\ last_at = "skip"
      /\ Len(Observed(trace_queue[tracequeue_head]).data) > 0
      /\ FrameOK(Observed(trace_queue[tracequeue_head]).data, 1, itm_datasize))
     => /\ itm_packet_errors' = itm_packet_errors
        /\ tracestrings' = DecodedAfresh.lines
        /\ itm_cachefilled' = 0
        /\ last_at' = "end"]_vars

\* trace_close is running
InClose == ui_pc \in {"close", "close_wait", "close_usb"}

\* C8: whenever trace_close is called while the handle of a started reader
\* thread is held, the reader thread eventually has exited and trace_close
\* has returned.
C8_CloseReturns ==
  (ui_pc = "close" /\ hThread # 0) ~> (~InClose /\ ~ReaderRunning)

\* C9: when trace_close has returned, the ring is empty (head = tail), the
\* carry cache is empty and the trace lines are those of before the call.
C9_CloseResets ==
  (ui_pc = "idle" /\ last_op = "trace_close") =>
     /\ tracequeue_head = tracequeue_tail
     /\ itm_cachefilled = 0
     /\ tracestrings = lines_before

\* C10: when trace_init has returned a code other than OK, no reader thread
\* runs and neither the USB handle nor the socket opened by this call is
\* still held.
C10_FailureReleases ==
  (ui_pc = "idle" /\ last_op = "trace_init" /\ init_result \notin {"OK", "none", "pending"}) =>
     /\ ~ReaderRunning
     /\ hUSBiface = 0
     /\ TraceSocket # init_count

\* the step is a direct call of tracestring_add
AddStep == Len(adds') = Len(adds) + 1
\* the arguments of that call
ThisAdd == adds'[Len(adds')]

\* C11: a tracestring_add that targets a channel whose enabled flag is
\* false leaves the trace list as it is: no line is created, none gets a
\* byte appended, and the tail line is not sealed.
C11_DisabledNoEffect ==
  [][(AddStep /\ ~channels[ThisAdd.channel]) => tracestrings' = tracestrings]_vars

\* C11 witness: text for the disabled channel 2 was added while the tail
\* line, of channel 0, was open; it still is
C11_Witness ==
  /\ Len(adds) >= 2
  /\ adds[Len(adds)].channel = 2 /\ ~channels[2]
  /\ adds[Len(adds)].buffer = <<65>>
  /\ tracestrings # <<>>
  /\ Last(tracestrings).channel = 0 /\ Last(tracestrings).flags = 0

\* no text holds a CR or a LF
NoNewlineInText ==
  \A i \in 1..Len(tracestrings) :
     \A k \in 1..Len(tracestrings[i].text) : tracestrings[i].text[k] \notin {CR, LF}

\* the list right after byte i of the buffer of this call was handled
AfterByte(i) ==
  tracestring_add(tracestrings, channels, ThisAdd.channel,
                  SubSeq(ThisAdd.buffer, 1, i), ThisAdd.timestamp)

\* each CR or LF of a buffer for an enabled channel leaves a sealed tail, or
\* no line at all if there was none
NewlineSeals ==
  (AddStep /\ channels[ThisAdd.channel]) =>
     \A i \in 1..Len(ThisAdd.buffer) :
        ThisAdd.buffer[i] \in {CR, LF} =>
           /\ (tracestrings = <<>> /\ i = 1) => AfterByte(i) = <<>>
           /\ AfterByte(i) # <<>> => Last(AfterByte(i)).flags % 2 = 1
           /\ i = Len(ThisAdd.buffer) => tracestrings' = AfterByte(i)

\* C12: in plain-text mode no line's text ever holds a CR or LF; every CR or
\* LF added on an enabled channel while a tail line exists seals that tail;
\* a CR or LF added to the empty list creates no line.
C12_LineSplitting == []NoNewlineInText /\ [][NewlineSeals]_vars

\* C12 witness: "A" then LF on channel 0 gave one sealed line "A"
C12_Witness ==
  /\ Len(adds) = 2
  /\ adds[1].channel = 0 /\ adds[1].buffer = <<65>>
  /\ adds[2].channel = 0 /\ adds[2].buffer = <<LF>>
  /\ Len(tracestrings) = 1
  /\ tracestrings[1].text = <<65>> /\ tracestrings[1].flags = 1

\* two calls were made, on the same enabled channel, "foo" then "bar", the
\* second gap ms after the first
TwoAdds(gap) ==
  /\ Len(adds) = 2
  /\ adds[1].channel = adds[2].channel /\ channels[adds[1].channel]
  /\ adds[1].buffer = <<102, 111, 111>> /\ adds[2].buffer = <<98, 97, 114>>
  /\ adds[2].timestamp - adds[1].timestamp = gap

\* one line holding both texts
OneLine ==
  /\ Len(tracestrings) = 1
  /\ tracestrings[1].text = adds[1].buffer \o adds[2].buffer

\* two lines, one per text
TwoLines ==
  /\ Len(tracestrings) = 2
  /\ tracestrings[1].text = adds[1].buffer
  /\ tracestrings[2].text = adds[2].buffer

\* C13 as stated: 0.2 s apart the two texts make two sealed lines, 0.05 s
\* apart one line "foobar".
C13_TwoSealedLines ==
  /\ TwoAdds(200) => (/\ TwoLines
                      /\ tracestrings[1].flags % 2 = 1
                      /\ tracestrings[2].flags % 2 = 1)
  /\ TwoAdds(50) => OneLine

\* C13, amended: 0.2 s apart the two texts make two lines, the first sealed
\* and the second still open; 0.05 s apart one open line "foobar".
C13_TwoLines ==
  /\ TwoAdds(200) => (/\ TwoLines
                      /\ tracestrings[1].flags % 2 = 1
                      /\ tracestrings[2].flags % 2 = 0)
  /\ TwoAdds(50) => (OneLine /\ tracestrings[1].flags % 2 = 0)

\* C13 witness: "foo" and "bar" 0.2 s apart on channel 0 gave two lines
C13_Witness ==
  /\ TwoAdds(200) /\ adds[1].channel = 0
  /\ TwoLines

\* tracestring_process returns in this step
TextReturn == ui_pc = "proc_end" /\ ui_pc' = "idle"
\* traceprofile_process returns in this step
ProfileReturn == ui_pc = "prof_end" /\ ui_pc' = "idle"

\* C14: tracestring_process(enabled = false) consumes every queued frame and
\* discards it: when it returns, the frames that were queued at the call are
\* dequeued, the trace lines, the carry cache, the data size and the packet
\* error count are those of the call, and tracequeue_overflow is 0.
C14_DisabledDiscards ==
  [][(TextReturn /\ ~ui_enabled) =>
       /\ deq_count' - call0.deq >= call0.queued
       /\ tracestrings' = call0.lines
       /\ itm_cache' = call0.cache /\ itm_cachefilled' = call0.cachefilled
       /\ itm_datasize' = call0.datasize
       /\ itm_packet_errors' = call0.errors
       /\ tracequeue_overflow' = 0]_vars

\* a disabled call has returned after discarding a frame, with a header
\* in the carry cache, a line in the list and the overflow count reset
C14_Witness ==
  /\ ui_pc = "idle" /\ last_op = "tracestring_process" /\ ~ui_enabled
  /\ deq_count - call0.deq >= 1 /\ call0.queued >= 1
  /\ call0.cachefilled > 0 /\ Len(call0.lines) > 0
  /\ call0.overflow > 0 /\ tracequeue_overflow = 0

\* the cursor moves only when a frame is dequeued, and then by one slot
HeadStep ==
  /\ tracequeue_head' # tracequeue_head => deq_count' = deq_count + 1
  /\ deq_count' # deq_count =>
       /\ deq_count' = deq_count + 1
       /\ tracequeue_head' = (tracequeue_head + 1) % PACKET_NUM

\* C15: when tracestring_process or traceprofile_process returns and no frame
\* was enqueued during the call, the ring is empty and the call dequeued
\* exactly the frames that were queued; the head cursor advances one slot per
\* dequeued frame on every path.
C15_DrainsRing ==
  [][/\ HeadStep
     /\ ((TextReturn \/ ProfileReturn) /\ enq_count = call0.enq) =>
          /\ tracequeue_head' = tracequeue_tail'
          /\ deq_count' - call0.deq = call0.queued]_vars

\* an enabled call of the text decoder has returned after two frames, one
\* of which raised a packet error and one of which only filled the cache
C15_Witness ==
  /\ ui_pc = "idle" /\ last_op = "tracestring_process" /\ ui_enabled
  /\ enq_count = call0.enq /\ call0.queued = 2
  /\ deq_count - call0.deq = 2
  /\ itm_packet_errors > call0.errors
  /\ itm_cachefilled > 0 /\ call0.cachefilled = 0
  /\ tracequeue_head = tracequeue_tail

\* C16: the value tracestring_process returns is the number of trace lines
\* created during the call.
C16_CountsNewLines ==
  [][TextReturn => ui_count = Len(tracestrings') - Len(call0.lines)]_vars

\* the PC values of the complete PC sample packets of an ITM stream: 0x17
\* and four bytes is a PC sample, 0x70 is the overflow packet, any other
\* header is followed by its payload (four bytes if the header is not valid)
RECURSIVE PcSamples(_, _)
PcSamples(bytes, pos) ==
  IF pos > Len(bytes) THEN <<>>
  ELSE
    LET b == bytes[pos]
        len == IF b = 23 THEN 5
               ELSE IF b = 112 THEN 1
               ELSE IF ITM_VALIDHDR(b) THEN ITM_LENGTH(b) + 1 ELSE 5
    IN  IF pos + len - 1 > Len(bytes) THEN <<>>
        ELSE (IF b = 23 THEN <<PcOf(SubSeq(bytes, pos + 1, pos + 4))>> ELSE <<>>)
               \o PcSamples(bytes, pos + len)

\* the bucket a PC value belongs to
BucketOf(pc) ==
  IF code_base <= pc /\ pc < code_top
    THEN Address2Index(pc, code_base)
    ELSE Address2Index(code_top, code_base)

\* how many of the PC values belong to bucket idx
Hits(pcs, idx) == Cardinality({k \in 1..Len(pcs) : BucketOf(pcs[k]) = idx})

\* the sum of the buckets
RECURSIVE SumOver(_, _)
SumOver(map, S) ==
  IF S = {} THEN 0
  ELSE LET i == CHOOSE x \in S : TRUE IN map[i] + SumOver(map, S \ {i})
Total(map) == SumOver(map, DOMAIN map)

\* traceprofile_process has returned and every frame read was decoded by it
ProfiledAll ==
  /\ ui_pc = "idle" /\ last_op = "traceprofile_process"
  /\ reader_pc \in {"test", "xfer"}
  /\ tracequeue_head = tracequeue_tail
  /\ Len(processed) = Len(produced)

\* C17: every complete PC sample packet decoded by traceprofile_process
\* increments one bucket by one, the bucket of its PC value if the value is
\* in the code range and the bucket of code_top otherwise, and the returned
\* count is the sum of the increments of the call.
C17_Histogram ==
  ProfiledAll =>
    LET pcs == PcSamples(Stream, 1)
    IN  /\ \A idx \in DOMAIN sample_map \cup {BucketOf(pcs[k]) : k \in 1..Len(pcs)} :
             Bucket(sample_map, idx) = Hits(pcs, idx)
        /\ Total(sample_map) = Len(pcs)
        /\ ui_count = Total(sample_map) - Total(call0.map)

\* three frames were decoded: a PC sample cut in two frames and a PC sample
\* outside of the code range, the latter counted by the call that returned
C17_Witness ==
  /\ ProfiledAll
  /\ Bucket(sample_map, 1) = 1
  /\ Bucket(sample_map, Address2Index(code_top, code_base)) = 1
  /\ ui_count = 1 /\ Total(call0.map) = 1

\* the line holds the text, letter case ignored
Contains(item, text) ==
  \E i \in 0..(item.length - Len(text)) :
    \A k \in 1..Len(text) : toupper(item.text[i + k]) = toupper(text[k])

\* the lines of a list of n lines in the order of a search that starts
\* after line `start` and wraps around once
SearchOrder(n, start) == [k \in 1..n |-> (start + k) % n]

\* the first position of the order whose line holds the text, 0 if none
FirstMatch(lines, text, order) ==
  IF \E k \in 1..Len(order) : Contains(lines[order[k] + 1], text)
    THEN CHOOSE k \in 1..Len(order) :
           /\ Contains(lines[order[k] + 1], text)
           /\ \A j \in 1..(k - 1) : ~Contains(lines[order[j] + 1], text)
    ELSE 0

\* tracestring_find was called last
Searched == last_op = "tracestring_find"

\* C18: tracestring_find, for a start line in -1..count-1, returns after it
\* examined the lines once in the order that starts after the start line and
\* wraps around, up to the first line that holds the text; it returns the
\* index of that line, and -1 if and only if no line holds the text.
C18_FindWrapsOnce ==
  Searched =>
    LET order == SearchOrder(Len(tracestrings), search.curline)
        first == FirstMatch(tracestrings, search.text, order)
    IN  /\ search.returns
        /\ search.examined = IF first = 0 THEN order ELSE SubSeq(order, 1, first)
        /\ search.line = IF first = 0 THEN 0 - 1 ELSE order[first]

\* tracestring_findtimestamp was called last
Located == last_op = "tracestring_findtimestamp"

\* the index of the last line with a timestamp below ts, -1 if there is none
LastBefore(lines, ts) ==
  IF \E i \in 1..Len(lines) : lines[i].timestamp < ts
    THEN (CHOOSE i \in 1..Len(lines) :
            /\ lines[i].timestamp < ts
            /\ \A j \in (i + 1)..Len(lines) : ~(lines[j].timestamp < ts)) - 1
    ELSE 0 - 1

\* C19: tracestring_findtimestamp(ts) returns the index of the last line of
\* the list whose timestamp is below ts, whatever the order of the
\* timestamps, and -1 for the empty list.
C19_LastBefore ==
  Located => search.line = LastBefore(tracestrings, search.timestamp)

\* timeline_rebuild was called last and has returned
Rebuilt == ui_pc = "idle" /\ last_op = "timeline_rebuild"

\* C20: after timeline_rebuild, in every channel the positions of the marks
\* do not decrease, two adjacent marks are at least 0.5 apart, every mark
\* has a count of at least 1 and the marks fit in the allocated array.
C20_TimelineMonotonic ==
  Rebuilt =>
    \A chan \in 0..(NUM_CHANNELS - 1) :
      LET tl == timeline[chan]
      IN  /\ tl.length = Len(tl.marks)
          /\ tl.length <= tl.size
          /\ \A i \in 1..tl.length : tl.marks[i].count >= 1
          /\ \A i \in 1..(tl.length - 1) :
               /\ tl.marks[i].pos <= tl.marks[i + 1].pos
               /\ tl.marks[i + 1].pos - tl.marks[i].pos >= 5

\* the timeline of channel 0 was grown for its 33rd mark, and a later line
\* 2 ms after the last one has collapsed into that mark
C20_Witness ==
  /\ Rebuilt
  /\ timeline[0].size = 64 /\ timeline[0].length = 33
  /\ timeline[0].marks[33].count = 2
  /\ Len(tracestrings) = 34

\* C21: starting from the initial configuration, after any sequence of
\* clicks on "+" and "-" mark_scale is one of 1, 1000, 1000000, 60000000 and
\* mark_deltatime is in 1..100 (so that mark_scale * mark_deltatime is not
\* zero when the timeline is rebuilt)
C21_ZoomPermitted ==
  /\ mark_scale \in MarkUnits
  /\ mark_deltatime >= 1 /\ mark_deltatime <= 100

\* a configuration that is permitted: spacing >= 10, a scale with a unit,
\* delta in 1..100
Permitted(cfg) ==
  /\ ~FltBelow(cfg.spacing, 10)
  /\ cfg.scale \in MarkUnits
  /\ cfg.delta >= 1 /\ cfg.delta <= 100

\* x * 2^10, truncated
Fixed10(x) ==
  IF x.e + 10 >= 0 THEN x.m * (2^(x.e + 10)) ELSE x.m \div (2^(0 - (x.e + 10)))

\* a is within 1% of b
Within1Percent(a, b) ==
  LET d == Fixed10(a) - Fixed10(b)
  IN  100 * (IF d < 0 THEN 0 - d ELSE d) <= Fixed10(b)

\* the last two clicks were "+" and then "-"
RoundTrip ==
  /\ Len(clicks.trail) = 2
  /\ clicks.trail[1].click = "plus"
  /\ clicks.trail[2].click = "minus"

\* C22: a click on "+" immediately followed by a click on "-", from a
\* permitted configuration, gives back the same mark_scale and
\* mark_deltatime and a mark_spacing within 1% of the original
C22_ZoomRoundTrip ==
  (RoundTrip /\ Permitted(clicks.trail[1].cfg)) =>
    /\ mark_scale = clicks.trail[1].cfg.scale
    /\ mark_deltatime = clicks.trail[1].cfg.delta
    /\ Within1Percent(mark_spacing, clicks.trail[1].cfg.spacing)

\* C23: with limitlines > 0 and the list unchanged, after the second and
\* every later call of timeline_rebuild(limitlines) in a row the marks of
\* all channels together are at most limitlines
C23_LineLimit ==
  (/\ last_op = "timeline_rebuild" /\ ui_pc = "idle"
   /\ rebuilds.limit > 0 /\ rebuilds.count >= 2)
    => TotalMarks(timeline, NUM_CHANNELS) <= rebuilds.limit

\* the decoder decodes the frame at the head of the ring in this step
TextStep == ui_pc = "proc_frame" /\ ui_pc' # "proc_frame" /\ ui_enabled
\* that frame
HeadFrame == Observed(trace_queue[tracequeue_head]).data

\* the LENs of the stimulus packets the frame `data` completes, read from
\* byte pos on: a PC sample is passed over, an invalid header ends the
\* frame, a packet cut by the end of the frame is left for the next frame
RECURSIVE PacketLens(_, _)
PacketLens(data, pos) ==
  IF pos > Len(data) THEN {}
  ELSE IF data[pos] = 23 THEN PacketLens(data, pos + 5)
  ELSE IF ~ITM_VALIDHDR(data[pos]) THEN {}
  ELSE IF pos + ITM_LENGTH(data[pos]) > Len(data) THEN {}
  ELSE {ITM_LENGTH(data[pos])} \cup PacketLens(data, pos + 1 + ITM_LENGTH(data[pos]))

\* the LENs of the stimulus packets decoded with the head frame: the
\* packet whose header was carried over, and those of the frame behind it
FrameLens ==
  IF itm_cachefilled > 0
    THEN {ITM_LENGTH(itm_cache[1])}
         \cup PacketLens(HeadFrame, ITM_LENGTH(itm_cache[1]) - (itm_cachefilled - 1) + 1)
    ELSE PacketLens(HeadFrame, 1)

\* the largest element of a set of numbers, or low if there is none above
MaxOf(S, low) == IF \E x \in S : x > low THEN CHOOSE x \in S : \A y \in S : y <= x ELSE low

\* with auto-grow on, decoding a frame leaves the data size at the largest
\* LEN met so far, and the size of a packet is no reason to refuse it
GrowStep ==
  (TextStep /\ itm_datasz_auto) =>
     /\ itm_datasize' = MaxOf(FrameLens, itm_datasize)
     /\ itm_datasize' >= itm_datasize
     /\ \A k \in 1..Len(HeadFrame) :
          ITM_VALIDHDR(HeadFrame[k]) =>
             SizeCheck(ITM_LENGTH(HeadFrame[k]), itm_datasize, itm_datasz_auto) = "ok"

\* the frame 03 DE AD BE EF met with data size 1 and nothing carried over
\* sets the data size to 4 and puts the four bytes on channel 0
GrowExample ==
  (/\ TextStep /\ itm_datasz_auto /\ itm_datasize = 1 /\ itm_cachefilled = 0
   /\ HeadFrame = <<3, 222, 173, 190, 239>>) =>
     /\ itm_datasize' = 4
     /\ tracestrings' # <<>>
     /\ Last(tracestrings').channel = 0
     /\ Len(Last(tracestrings').text) >= 4
     /\ SubSeq(Last(tracestrings').text, Len(Last(tracestrings').text) - 3,
               Len(Last(tracestrings').text)) = <<222, 173, 190, 239>>
     /\ itm_packet_errors' = itm_packet_errors

\* C24: in text mode with auto-grow on, the data size is always 1, 2 or 4,
\* never decreases, equals the largest LEN of the stimulus packets decoded
\* so far (1 if there is none), and no packet is refused for its size; the
\* frame 03 DE AD BE EF met with data size 1 sets it to 4 and emits the
\* four payload bytes on channel 0
C24_AutoGrow ==
  /\ [](itm_datasz_auto => itm_datasize \in {1, 2, 4})
  /\ [][GrowStep]_vars
  /\ [][GrowExample]_vars

\* C24 witness: with auto-grow on, the frame 03 DE AD BE EF was decoded
\* into the line DE AD BE EF on channel 0 and the data size is 4
C24_Witness ==
  /\ itm_datasz_auto /\ itm_datasize = 4
  /\ Len(processed) = 1 /\ processed[1].data = <<3, 222, 173, 190, 239>>
  /\ Len(tracestrings) = 1
  /\ tracestrings[1].channel = 0 /\ tracestrings[1].text = <<222, 173, 190, 239>>


\* the payload bytes of the stimulus packets the frame `data` holds from
\* byte pos on up to the first invalid header (stop = "invalid"), a packet
\* cut by the end of the frame (stop = "cut") or the end of the frame
RECURSIVE PayloadUpTo(_, _, _)
PayloadUpTo(data, pos, acc) ==
  IF pos > Len(data) THEN [stop |-> "end", payload |-> acc]
  ELSE IF data[pos] = 23 THEN PayloadUpTo(data, pos + 5, acc)
  ELSE IF ~ITM_VALIDHDR(data[pos]) THEN [stop |-> "invalid", payload |-> acc]
  ELSE IF pos + ITM_LENGTH(data[pos]) > Len(data) THEN [stop |-> "cut", payload |-> acc]
  ELSE PayloadUpTo(data, pos + 1 + ITM_LENGTH(data[pos]),
                   acc \o SubSeq(data, pos + 1, pos + ITM_LENGTH(data[pos])))

\* the number of bytes of text in the list
RECURSIVE StoredBytes(_)
StoredBytes(lines) ==
  IF lines = <<>> THEN 0
  ELSE Len(lines[1].text) + StoredBytes(Tail(lines))

\* the head frame holds packets the size check accepts and then an
\* invalid header, and no header was carried over
CutByInvalid ==
  /\ TextStep /\ itm_cachefilled = 0
  /\ PayloadUpTo(HeadFrame, 1, <<>>).stop = "invalid"
  /\ PayloadUpTo(HeadFrame, 1, <<>>).payload # <<>>
  /\ \A l \in PacketLens(HeadFrame, 1) : SizeCheck(l, itm_datasize, itm_datasz_auto) = "ok"

\* C25: when a text-mode frame holds valid stimulus packets and then an
\* invalid header, the payload bytes of the packets before the invalid
\* header are still put on their channels: the store grows by those bytes
C25_PrefixEmitted ==
  [][CutByInvalid =>
       StoredBytes(tracestrings') =
         StoredBytes(tracestrings) + Len(PayloadUpTo(HeadFrame, 1, <<>>).payload)]_vars


\* how the walk over the frame `data` from byte pos on ends when packets
\* of more than `size` bytes are refused: "end", "invalid", "cut" or
\* "oversize"; payload holds the bytes of the packets passed before
RECURSIVE WalkSized(_, _, _, _)
WalkSized(data, pos, size, acc) ==
  IF pos > Len(data) THEN [stop |-> "end", payload |-> acc]
  ELSE IF data[pos] = 23 THEN WalkSized(data, pos + 5, size, acc)
  ELSE IF ~ITM_VALIDHDR(data[pos]) THEN [stop |-> "invalid", payload |-> acc]
  ELSE IF pos + ITM_LENGTH(data[pos]) > Len(data) THEN [stop |-> "cut", payload |-> acc]
  ELSE IF ITM_LENGTH(data[pos]) > size THEN [stop |-> "oversize", payload |-> acc]
  ELSE WalkSized(data, pos + 1 + ITM_LENGTH(data[pos]), size,
                 acc \o SubSeq(data, pos + 1, pos + ITM_LENGTH(data[pos])))

\* the walk over the head frame behind the bytes that complete the
\* carried header
HeadWalk ==
  WalkSized(HeadFrame,
            IF itm_cachefilled > 0
              THEN ITM_LENGTH(itm_cache[1]) - (itm_cachefilled - 1) + 1 ELSE 1,
            itm_datasize, <<>>)

\* with auto-grow off the decoder meets a packet larger than the data
\* size: the carried header, or a whole packet of the head frame
OversizeMet ==
  /\ TextStep /\ ~itm_datasz_auto
  /\ IF itm_cachefilled > 0 /\ ITM_LENGTH(itm_cache[1]) > itm_datasize
       THEN TRUE
       ELSE HeadWalk.stop = "oversize"

\* the bytes the frame can have put into the store before the packet
OversizeBefore ==
  IF itm_cachefilled > 0 /\ ITM_LENGTH(itm_cache[1]) > itm_datasize
    THEN 0 ELSE (itm_cachefilled - (IF itm_cachefilled > 0 THEN 1 ELSE 0))
                + Len(HeadWalk.payload)

SizeStep ==
  /\ TextStep => itm_packet_errors' \in {itm_packet_errors, itm_packet_errors + 1}
  /\ (TextStep /\ ~itm_datasz_auto) => itm_datasize' = itm_datasize
  /\ OversizeMet =>
       /\ itm_packet_errors' = itm_packet_errors + 1
       /\ last_at' = "skip"
       /\ itm_cache' = itm_cache
       /\ StoredBytes(tracestrings') <= StoredBytes(tracestrings) + OversizeBefore

\* C26: with auto-grow off, a stimulus packet longer than the data size,
\* met in the frame or as the carried header, adds exactly one to
\* itm_packet_errors, leaves itm_datasize as it is and ends the decoding
\* of the frame (skip_packet: no later byte is cached or stored); no frame
\* adds more than one to itm_packet_errors
C26_SizeError == [][SizeStep]_vars

\* C26 witness: data size 1, auto-grow off; the header 03 was carried over
\* from the first frame and refused with the second, one error counted
C26_Witness ==
  /\ ~itm_datasz_auto /\ itm_datasize = 1
  /\ Len(processed) = 2 /\ processed[1].data = <<3>>
  /\ last_at = "skip" /\ itm_packet_errors = 1

\* data size 2, auto-grow off; the packet 03 DE AD BE EF was refused in
\* its frame, one error counted and nothing stored
OversizeInFrame ==
  /\ ~itm_datasz_auto /\ itm_datasize = 2
  /\ Len(processed) = 1 /\ processed[1].data = <<3, 222, 173, 190, 239>>
  /\ last_at = "skip" /\ itm_packet_errors = 1 /\ tracestrings = <<>>


\* the walk over the frame `data` from byte pos on comes to a header 0x17
\* with fewer than 5 bytes left in the frame (packets of more than `size`
\* bytes end the walk unless auto-grow is on)
RECURSIVE MeetsShortSample(_, _, _, _)
MeetsShortSample(data, pos, size, auto) ==
  IF pos > Len(data) THEN FALSE
  ELSE IF data[pos] = 23
    THEN IF pos + 4 > Len(data) THEN TRUE
         ELSE MeetsShortSample(data, pos + 5, size, auto)
  ELSE IF ~ITM_VALIDHDR(data[pos]) THEN FALSE
  ELSE IF pos + ITM_LENGTH(data[pos]) > Len(data) THEN FALSE
  ELSE IF SizeCheck(ITM_LENGTH(data[pos]), size, auto) = "error" THEN FALSE
  ELSE MeetsShortSample(data, pos + 1 + ITM_LENGTH(data[pos]),
                        GrowSize(ITM_LENGTH(data[pos]), size), auto)

\* the decoder, with nothing carried over, comes to such a header in the
\* head frame
ShortSample ==
  /\ TextStep /\ itm_cachefilled = 0
  /\ MeetsShortSample(HeadFrame, 1, itm_datasize, itm_datasz_auto)

\* C27: in text mode a header 0x17 with fewer than 5 bytes left in the
\* frame counts as a packet error: itm_packet_errors grows by one, the
\* rest of the frame is skipped (skip_packet) and nothing is carried over
C27_ShortSample ==
  [][ShortSample =>
       /\ itm_packet_errors' = itm_packet_errors + 1
       /\ last_at' = "skip"
       /\ itm_cachefilled' = 0]_vars

\* what the code does with such a header: the frame ends as a frame
\* without errors ends, nothing counted and nothing carried over
ShortSampleSilent ==
  [][ShortSample =>
       /\ itm_packet_errors' = itm_packet_errors
       /\ last_at' = "end"
       /\ itm_cachefilled' = 0]_vars

\* the frame 17 00 10 was decoded without a packet error
ShortSampleDecoded ==
  /\ Len(processed) = 1 /\ processed[1].data = <<23, 0, 16>>
  /\ itm_packet_errors = 0 /\ last_at = "end"


\* the bytes of the packet that begins with the header hdr, header included
\* (traceprofile_process, line 603: 5 for a PC sample or an unknown header)
PacketNeeds(hdr) == IF ITM_VALIDHDR(hdr) THEN ITM_LENGTH(hdr) + 1 ELSE 5

\* the carry cache holds the beginning of a packet, or nothing
CarryBound ==
  /\ itm_cachefilled \in 0..(ITM_CACHESIZE - 1)
  /\ itm_cachefilled > 0 => itm_cachefilled < PacketNeeds(itm_cache[1])

\* one of the two decoders decodes the frame at the head of the ring
CarryStep ==
  \/ ui_pc = "proc_frame" /\ ui_pc' # "proc_frame" /\ ui_enabled
  \/ ui_pc = "prof_frame" /\ ui_pc' # "prof_frame" /\ ui_enabled /\ ui_map

\* the bytes carried before the frame, followed by the frame
CarryStream == SubSeq(itm_cache, 1, itm_cachefilled) \o HeadFrame

\* what a frame that ends inside a packet leaves in the cache are the last
\* bytes met: those carried before and those of the frame, from the header
\* of the packet on
CarryHolds ==
  (CarryStep /\ last_at' = "end" /\ itm_cachefilled' > 0) =>
     /\ itm_cachefilled' <= Len(CarryStream)
     /\ SubSeq(itm_cache', 1, itm_cachefilled')
          = SubSeq(CarryStream, Len(CarryStream) - itm_cachefilled' + 1, Len(CarryStream))

\* C28: after every frame, decoded as text or as PC samples, itm_cachefilled
\* is in 0..4 and, when it is not zero, the cache holds a header and fewer
\* bytes behind it than the packet of that header has; what is cached are
\* the last itm_cachefilled bytes met, so no byte is written behind
\* itm_cache[4]
C28_CarryBound == [](CarryBound) /\ [][CarryHolds]_vars

\* C28 witness: the packet 03 41 42 of the first frame was carried, and
\* traceprofile_process added the second frame, 01, to it: four bytes of
\* the packet of five are carried
C28_Witness ==
  /\ last_op = "traceprofile_process" /\ last_at = "end"
  /\ Len(processed) = 2
  /\ processed[1].data = <<3, 65, 66>> /\ processed[2].data = <<1>>
  /\ itm_cachefilled = 4 /\ SubSeq(itm_cache, 1, 4) = <<3, 65, 66, 1>>

\* tracestring_process carried the packet 03 41 42 of the first frame
TextCarried ==
  /\ last_op = "tracestring_process" /\ last_at = "end"
  /\ Len(processed) = 1 /\ processed[1].data = <<3, 65, 66>>
  /\ itm_cachefilled = 3 /\ SubSeq(itm_cache, 1, 3) = <<3, 65, 66>>


\* a is the beginning of b
IsPrefix(a, b) == Len(a) <= Len(b) /\ SubSeq(b, 1, Len(a)) = a

\* what a step that does not clear the list leaves of the lines it found:
\* every line but the tail as it was; a sealed tail as it was; an open
\* tail with its channel and timestamp, its text at most extended
SealedKept ==
  (tracestrings # <<>> /\ last_op' # "tracestring_clear") =>
     /\ Len(tracestrings') >= Len(tracestrings)
     /\ \A i \in 1..Len(tracestrings) :
          /\ tracestrings[i].flags % 2 = 1 =>
               /\ tracestrings'[i].flags % 2 = 1
               /\ tracestrings'[i].text = tracestrings[i].text
               /\ tracestrings'[i].length = tracestrings[i].length
               /\ tracestrings'[i].channel = tracestrings[i].channel
               /\ tracestrings'[i].timestamp = tracestrings[i].timestamp
          /\ i < Len(tracestrings) => tracestrings'[i] = tracestrings[i]
          /\ i = Len(tracestrings) =>
               /\ IsPrefix(tracestrings[i].text, tracestrings'[i].text)
               /\ tracestrings'[i].channel = tracestrings[i].channel
               /\ tracestrings'[i].timestamp = tracestrings[i].timestamp

\* C29: a line whose flags bit 0 is set keeps the flag, its text, length,
\* channel and timestamp; bytes are appended to the tail only, and no line
\* but the tail is modified, until tracestring_clear empties the list
C29_SealedKept == [][SealedKept]_vars

\* C29 witness: the call of tracestring_add found a sealed line and has
\* put a second line behind it
C29_Witness ==
  /\ last_op = "tracestring_add"
  /\ Len(tracestrings) >= 2
  /\ tracestrings[1].flags = 1
  /\ adds # <<>> /\ Last(adds).timestamp > tracestrings[1].timestamp


\* the sizes a text buffer can have: TRACESTRING_INITSIZE, doubled on demand
LineSizes == {32, 64, 128, 256}

\* every line holds at least one byte and at most as many as its buffer,
\* which has one of the four sizes
LineBound ==
  \A i \in 1..Len(tracestrings) :
    /\ tracestrings[i].length >= 1
    /\ tracestrings[i].length <= tracestrings[i].size
    /\ tracestrings[i].size <= TRACESTRING_MAXLENGTH
    /\ tracestrings[i].size \in LineSizes
    /\ tracestrings[i].length = Len(tracestrings[i].text)

\* tracestring_add is called on an enabled channel while the tail holds
\* TRACESTRING_MAXLENGTH bytes
AtCap ==
  /\ last_op' = "tracestring_add" /\ Len(adds') = Len(adds) + 1
  /\ channels[Last(adds').channel]
  /\ tracestrings # <<>>
  /\ Last(tracestrings).length = TRACESTRING_MAXLENGTH

\* the tail is sealed with its text as it was, and the line behind it
\* begins with the first byte of the buffer
SplitAtCap ==
  /\ Len(tracestrings') > Len(tracestrings)
  /\ tracestrings'[Len(tracestrings)].flags % 2 = 1
  /\ tracestrings'[Len(tracestrings)].text = Last(tracestrings).text
  /\ tracestrings'[Len(tracestrings) + 1].text[1] = Last(adds').buffer[1]

\* a buffer of "A" that does not fit into the open tail of its channel is
\* split: the tail is filled to TRACESTRING_MAXLENGTH bytes and sealed, the
\* other bytes make the next line
SplitInBuffer ==
  (/\ last_op' = "tracestring_add" /\ Len(adds') = Len(adds) + 1
   /\ tracestrings # <<>> /\ Last(tracestrings).flags % 2 = 0
   /\ Last(adds').channel = Last(tracestrings).channel
   /\ Last(adds').timestamp - Last(tracestrings).timestamp <= INTERVAL_LIMIT
   /\ Last(adds').buffer = Fill(Len(Last(adds').buffer))
   /\ Last(tracestrings).length + Len(Last(adds').buffer) > TRACESTRING_MAXLENGTH) =>
     /\ Len(tracestrings') = Len(tracestrings) + 1
     /\ tracestrings'[Len(tracestrings)].length = TRACESTRING_MAXLENGTH
     /\ tracestrings'[Len(tracestrings)].flags % 2 = 1
     /\ IsPrefix(Last(tracestrings).text, tracestrings'[Len(tracestrings)].text)
     /\ Last(tracestrings').text =
          Fill(Last(tracestrings).length + Len(Last(adds').buffer) - TRACESTRING_MAXLENGTH)

AnchorFirst ==
  \A i \in 1..Len(tracestrings) :
    tracestrings[i].timefmt
      = Format3(tracestrings[i].timestamp - tracestrings[1].timestamp)

\* C31: the timefmt of every plain-text line is its timestamp less the
\* timestamp of the first line of the list, with three decimals (0.000 on
\* the first line); tracestring_clear leaves the list empty (isempty true,
\* count 0), and the line created next is the first line again
C31_Anchor ==
  /\ [](AnchorFirst)
  /\ [](tracestrings # <<>> => tracestrings[1].timefmt = <<"", 0, 0>>)
  /\ [][last_op' = "tracestring_clear" =>
          /\ tracestring_isempty(tracestrings')
          /\ tracestring_count(tracestrings') = 0]_vars

\* C31 witness: the list was cleared and two lines were created after it,
\* at 0.2 s and 0.4 s: they show 0.000 and 0.200
C31_Witness ==
  /\ Len(adds) = 3 /\ last_op = "tracestring_add"
  /\ Len(tracestrings) = 2
  /\ tracestrings[1].timestamp = 200 /\ tracestrings[1].timefmt = <<"", 0, 0>>
  /\ tracestrings[2].timestamp = 400 /\ tracestrings[2].timefmt = <<"", 0, 200>>
  /\ adds[1].timestamp = 0 /\ adds[1].channel = 0 /\ adds[1].buffer = Fill(2)


\* the positions of the marks of all channels
MarkPositions ==
  UNION {{timeline[c].marks[k].pos : k \in 1..timeline[c].length} :
           c \in 0..(NUM_CHANNELS - 1)}

\* C32: after timeline_rebuild on a list that is not empty, timeline_maxpos
\* is the largest pos of the marks of all channels
C32_MaxPos ==
  (/\ last_op = "timeline_rebuild" /\ ui_pc = "idle"
   /\ tracestrings # <<>> /\ MarkPositions # {}) =>
     /\ timeline_maxpos \in MarkPositions
     /\ \A p \in MarkPositions : p <= timeline_maxpos


\* C33: timeline_setconfig changes the configuration only when the
\* spacing is at least 10, the scale is one of 1, 1000, 1000000, 60000000
\* and delta is in 1..100: a call leaves the configuration as it was or
\* sets a permitted one
C33_SetConfig ==
  [][last_op' = "timeline_setconfig" =>
       (MarkConfig' = MarkConfig \/ Permitted(MarkConfig'))]_vars

\* timeline_setconfig took a scale of 500 and the widget, drawing the
\* marks with that scale, has failed its assertion on the unit
NoUnitMet ==
  /\ mark_scale = 500 /\ last_op = "timeline_widget" /\ ui_pc = "abort"


\* tracestring_add is called for an enabled channel in CTF mode and
\* ctf_decode returns a negative number
StreamError ==
  /\ last_op' = "tracestring_add" /\ Len(adds') = Len(adds) + 1
  /\ "decoded" \in DOMAIN Last(adds')
  /\ channels[Last(adds').channel]
  /\ Last(adds').decoded < 0

RECURSIVE ChannelPayload(_, _, _)
ChannelPayload(S, pos, chan) ==
  IF pos > Len(S) THEN <<>>
  ELSE LET n == ITM_LENGTH(S[pos])
           bytes == SubSeq(S, pos + 1, Min(pos + n, Len(S)))
           kept == SelectSeq(bytes, LAMBDA b : b # CR /\ b # LF)
       IN  (IF ITM_CHANNEL(S[pos]) = chan THEN kept ELSE <<>>)
             \o ChannelPayload(S, pos + 1 + n, chan)

\* the texts of the lines of channel chan, one after the other
RECURSIVE ChannelText(_, _)
ChannelText(lines, chan) ==
  IF lines = <<>> THEN <<>>
  ELSE (IF lines[1].channel = chan THEN lines[1].text ELSE <<>>)
         \o ChannelText(Tail(lines), chan)

\* every frame read holds whole stimulus packets of the data size or less
\* (of any size when the data size is detected), no payload byte is zero
FullFrames ==
  /\ \A k \in 1..Len(produced) :
       FrameOK(produced[k].data, 1, IF itm_datasz_auto THEN 4 ELSE itm_datasize)
  /\ \A k \in 1..Len(Stream) : Stream[k] # 0

\* the bytes and reading times of the frames read
FramesRead == [k \in 1..Len(produced) |-> <<produced[k].data, produced[k].timestamp>>]

\* C35: when frames of whole stimulus packets with payload bytes other than
\* zero, of sizes within the data size, on enabled channels are all decoded
\* in text mode, the texts of the lines of each channel, one after the
\* other, are the payload bytes of that channel in the order of arrival
\* without CR and LF; the frame 01 48 01 69 01 0A gives the one sealed line
\* "Hi" of channel 0 with the time 0.000, the frames 01 48 and 01 69 01 0A
\* read 10 ms apart give the one sealed line "Hi" and leave the carry
\* cache empty
C35_PayloadKept ==
  (DecodedAll /\ FullFrames) =>
     /\ \A c \in 0..(NUM_CHANNELS - 1) :
          ChannelText(tracestrings, c) = ChannelPayload(Stream, 1, c)
     /\ itm_cachefilled = 0 /\ itm_packet_errors = 0
     /\ (Len(produced) = 1 /\ produced[1].data = <<1, 72, 1, 105, 1, 10>>)
          => /\ Len(tracestrings) = 1
             /\ tracestrings[1].channel = 0 /\ tracestrings[1].text = <<72, 105>>
             /\ tracestrings[1].flags = 1 /\ tracestrings[1].timefmt = Format3(0)
     /\ (/\ Len(produced) = 2
         /\ produced[1].data = <<1, 72>> /\ produced[2].data = <<1, 105, 1, 10>>
         /\ produced[2].timestamp - produced[1].timestamp = 10)
          => /\ Len(tracestrings) = 1
             /\ tracestrings[1].channel = 0 /\ tracestrings[1].text = <<72, 105>>
             /\ tracestrings[1].flags = 1

\* C35 witness: 09 42 01 48 09 43 and 01 48 01 69 01 0A were decoded with
\* the data size 2, 10 ms apart: the lines "B" of channel 1, "H" of channel
\* 0, "C" of channel 1 and "Hi" of channel 0
C35_Witness ==
  /\ DecodedAll /\ FullFrames /\ ~itm_datasz_auto /\ itm_datasize = 2
  /\ Len(produced) = 2
  /\ produced[1].data = <<9, 66, 1, 72, 9, 67>>
  /\ produced[2].data = <<1, 72, 1, 105, 1, 10>>
  /\ produced[2].timestamp - produced[1].timestamp = 10
  /\ LineView(tracestrings) =
       <<[channel |-> 1, text |-> <<66>>, sealed |-> TRUE],
         [channel |-> 0, text |-> <<72>>, sealed |-> TRUE],
         [channel |-> 1, text |-> <<67>>, sealed |-> TRUE],
         [channel |-> 0, text |-> <<72, 105>>, sealed |-> TRUE]>>


\* the slots that hold the frames queued: head .. tail-1
QueuedSlots ==
  {(tracequeue_head + i) % PACKET_NUM :
     i \in 0..(Queued(tracequeue_head, tracequeue_tail) - 1)}

\* the reader stores data, length and timestamp of a frame into a slot
SlotWrite == reader_pc = "enq" /\ "copy" \notin rd_done /\ "copy" \in rd_done'

\* the decoder reads the slot at the head
SlotRead == ui_pc = "proc_frame" /\ ui_pc' # "proc_frame"

\* C36: whenever the reader writes a slot, it is the slot at the tail and
\* none of the slots head .. tail-1 that hold the frames queued; the
\* decoder reads the slot at the head only while head differs from tail,
\* and the head moves only after the read of that slot is finished
C36_SlotExclusive ==
  [][/\ SlotWrite => (rd_slot = tracequeue_tail /\ rd_slot \notin QueuedSlots)
     /\ SlotRead => tracequeue_head # tracequeue_tail
     /\ (ui_pc \in {"proc_test", "proc_frame"}) => tracequeue_head' = tracequeue_head]_vars

\* the reader writes the slot the decoder is reading: the store of the
\* tail was seen before the stores into the slot
SlotShared ==
  /\ reader_pc = "enq" /\ "publish" \in rd_done /\ "copy" \notin rd_done
  /\ ui_pc = "proc_frame" /\ tracequeue_head = rd_slot


\* the decoder at the head frame after the if (itm_cachefilled > 0) block
HeadStart ==
  TextStart([cache |-> itm_cache, cachefilled |-> itm_cachefilled,
             datasize |-> itm_datasize, auto |-> itm_datasz_auto,
             errors |-> itm_packet_errors, lines |-> tracestrings, pos |-> 0,
             pktlen |-> trace_queue[tracequeue_head].length,
             chan |-> NUM_CHANNELS, buffer |-> <<>>, at |-> "run", emitted |-> 0],
            trace_queue[tracequeue_head])

\* the decoder takes up a frame while the carry cache holds the start of a
\* packet that passes the size check
CompletesCached ==
  /\ TextStep /\ itm_cachefilled > 0
  /\ HeadStart.at = "run"

\* C37: when the decoder completes a cached packet from the next frame, the
\* bytes it takes from that frame are no more than the frame holds and the
\* count of the bytes left of the frame does not drop below zero
C37_FrameBounds ==
  [][CompletesCached =>
       /\ HeadStart.pos <= trace_queue[tracequeue_head].length
       /\ HeadStart.pktlen >= 0]_vars


\* the bytes read so far decoded as one frame by traceprofile_process with
\* an empty carry cache and an empty histogram
UndividedProfile ==
  ProfileFrame([cache |-> [k \in 1..ITM_CACHESIZE |-> 0], cachefilled |-> 0],
               [data |-> Stream, length |-> Len(Stream), timestamp |-> 0],
               <<>>, code_base, code_top)

\* one call of traceprofile_process decoded all the frames
OneCall == call0.deq = 0 /\ call0.map = <<>>

\* C38: however a stream is cut into frames, once traceprofile_process has
\* decoded the frames the histogram is that of the stream decoded as one
\* frame, and so are the count returned and the overflow markers reported
\* by a call that decoded all the frames (the counts of several calls add
\* up to the total of the histogram, C17)
C38_SplitInvariant ==
  (ProfiledAll /\ produced # <<>>) =>
     /\ sample_map = UndividedProfile.map
     /\ Total(sample_map) = UndividedProfile.count
     /\ OneCall => /\ ui_count = UndividedProfile.count
                   /\ overflow = UndividedProfile.overflow
     /\ itm_cachefilled = UndividedProfile.cachefilled

\* C38 witness: 70 17 00 10 00 20 70 was read in the frames 70 17, 00 10 00
\* and 20 70 and decoded by one call: one sample of the first instruction,
\* two overflow markers
C38_Witness ==
  /\ ProfiledAll /\ OneCall
  /\ Len(produced) = 3
  /\ produced[1].data = <<112, 23>> /\ produced[2].data = <<0, 16, 0>>
  /\ produced[3].data = <<32, 112>>
  /\ Bucket(sample_map, 0) = 1 /\ ui_count = 1 /\ overflow = 2


\* timeline_rebuild stopped at assert(idx == 0 || pos >= marks[idx - 1].pos)
RebuildAsserted == last_op = "timeline_rebuild" /\ ui_pc = "abort"

\* C39: the assertion of timeline_rebuild, that the position of a line is
\* not below the position of the last mark of its channel, never fails,
\* whatever the list holds, also lines with times of the remote host
C39_AssertHolds == ~RebuildAsserted

\* a list with two lines of one channel the later of which has the earlier
\* timestamp
BackwardLines ==
  \E i, j \in 1..Len(tracestrings) :
     /\ i < j /\ tracestrings[i].channel = tracestrings[j].channel
     /\ tracestrings[j].timestamp < tracestrings[i].timestamp


\* C40: every call of tracestring_find with a start line in -1..count-1
\* returns, also when no line holds the text and when the start line is
\* the last line of the list (a call does not return when its loop comes
\* back to a line it has examined with nothing changed)
C40_FindReturns == last_op = "tracestring_find" => search.returns

\* the search that goes round: started at the last line for a text that no
\* line holds
FindGoesRound ==
  /\ last_op = "tracestring_find" /\ ~search.returns
  /\ search.curline = Len(tracestrings) - 1
  /\ \A k \in 1..Len(tracestrings) : ~Contains(tracestrings[k], search.text)

=============================================================================
